---------------------------- MODULE Spec2Model ----------------------------
(***************************************************************************)
(* Model of the partial-availability range streamers and of the 7z         *)
(* extraction monitor of stremio-addon-debrid-search:                      *)
(*   src/media-file-server/fastapi_file_server.py  (FastAPI server)        *)
(*   src/media-file-server/usenet_file_server.py   (threaded server with   *)
(*                                                  archive support)       *)
(*   src/usenet_file_server.py                     (simple threaded server)*)
(***************************************************************************)
EXTENDS Integers, Sequences, FiniteSets, TLC

(***************************************************************************)
(* Bounds of the model.                                                    *)
(***************************************************************************)
\* largest file size (bytes) a request is made against
MaxSize == 3
\* a file large enough for an offset beyond 90% of it to exist
EndSeekSize == 11
\* chunk sizes 1..MaxChunk are tried besides the default one
MaxChunk == 2
\* longest Range header, in tokens, that a client sends
MaxHdrLen == 4
\* largest size (bytes) of a file of the monitored directory
MaxFileSize == 2
\* number of changes (a file written to, a file deleted) made to the
\* monitored directory in one run
MaxChanges == 3
\* last value of the clock, in seconds
MaxNow == 60
\* resets of the retry counter counted in one response
MaxRetryResets == 2
\* tokens of an archive reference
MaxRefLen == 5
\* loop iterations counted after the client has disconnected
MaxClosedSteps == 2

(***************************************************************************)
(* Program constants.                                                      *)
(***************************************************************************)
\* fastapi_file_server.py:129, usenet_file_server.py:329 : 256 * 1024
DEFAULT_CHUNK == 262144
\* src/usenet_file_server.py:102
SIMPLE_CHUNK == 8192

(***************************************************************************)
(* Range headers.  A header is absent (None) or a text.  The text is a     *)
(* sequence of tokens: the literal "bytes=" (one token), "-" and decimal   *)
(* digits.  Python's truth test `if range_header:` is false for None and   *)
(* for the empty text.                                                     *)
(***************************************************************************)
Digits == {"0", "1", "2", "3", "4", "5", "6", "7", "8", "9"}

\* the digits of the enumerated header texts; 9 gives numbers beyond any
\* size (RangeHeaders adds the headers of every in-range pair)
HdrDigits == {"0", "1", "9"}

HdrTokens == {"bytes=", "-"} \cup HdrDigits

NoHeader == [present |-> FALSE, text |-> <<>>]

HeaderOf(t) == [present |-> TRUE, text |-> t]

HdrTexts == UNION {[1..k -> HdrTokens] : k \in 0..MaxHdrLen}

Headers == {NoHeader} \cup {HeaderOf(t) : t \in HdrTexts}

Truthy(h) == h.present /\ Len(h.text) > 0

DigitVal(c) ==
    CASE c = "0" -> 0 [] c = "1" -> 1 [] c = "2" -> 2 [] c = "3" -> 3
      [] c = "4" -> 4 [] c = "5" -> 5 [] c = "6" -> 6 [] c = "7" -> 7
      [] c = "8" -> 8 [] c = "9" -> 9

DigitChar(n) ==
    CASE n = 0 -> "0" [] n = 1 -> "1" [] n = 2 -> "2" [] n = 3 -> "3"
      [] n = 4 -> "4" [] n = 5 -> "5" [] n = 6 -> "6" [] n = 7 -> "7"
      [] n = 8 -> "8" [] n = 9 -> "9"

\* int(s) for a non-empty text of decimal digits
RECURSIVE PyInt(_)
PyInt(ds) ==
    IF Len(ds) = 0 THEN 0
    ELSE 10 * PyInt(SubSeq(ds, 1, Len(ds) - 1)) + DigitVal(ds[Len(ds)])

\* str(n) for n >= 0, as used by the f-strings that build a header
RECURSIVE PyStr(_)
PyStr(n) ==
    IF n < 10 THEN <<DigitChar(n)>>
    ELSE PyStr(n \div 10) \o <<DigitChar(n % 10)>>

\* index of the last digit of the maximal run of digits that starts at i
\* (i - 1 when s[i] is no digit): what a greedy \d+ or \d* consumes
RECURSIVE DigitRunEnd(_, _)
DigitRunEnd(s, i) ==
    IF i <= Len(s) /\ s[i] \in Digits THEN DigitRunEnd(s, i + 1) ELSE i - 1

\* the pattern bytes=(\d+)-(\d*) matches with "bytes=" at index i
MatchAt(s, i) ==
    /\ i <= Len(s)
    /\ s[i] = "bytes="
    /\ DigitRunEnd(s, i + 1) >= i + 1
    /\ DigitRunEnd(s, i + 1) + 1 <= Len(s)
    /\ s[DigitRunEnd(s, i + 1) + 1] = "-"

\* re.search(r'bytes=(\d+)-(\d*)', s): the leftmost match, or None
ReSearch(s) ==
    IF \E i \in 1..Len(s) : MatchAt(s, i)
    THEN LET i == CHOOSE k \in 1..Len(s) :
                      MatchAt(s, k) /\ \A m \in 1..(k - 1) : ~MatchAt(s, m)
             j == DigitRunEnd(s, i + 1)
         IN  [matched |-> TRUE,
              group1 |-> SubSeq(s, i + 1, j),
              group2 |-> SubSeq(s, j + 2, DigitRunEnd(s, j + 2))]
    ELSE [matched |-> FALSE, group1 |-> <<>>, group2 |-> <<>>]

Min(a, b) == IF a <= b THEN a ELSE b

(***************************************************************************)
(* Range resolution of the four handlers.  Each returns the status and,    *)
(* for a non-error response, start, end, the declared Content-Length and   *)
(* whether a Content-Range header is sent.                                 *)
(***************************************************************************)
Resolved(st, s, e, cr) ==
    [status |-> st, start |-> s, end |-> e, content_length |-> e - s + 1,
     content_range |-> cr]

NotSatisfiable(s, e) ==
    [status |-> 416, start |-> s, end |-> e, content_length |-> 0,
     content_range |-> FALSE]

\* mutant: the end of the header is ignored
FastapiParseIgnoresEnd(range, file_size) ==
    LET m == ReSearch(range.text)
    IN  IF Truthy(range) /\ m.matched
        THEN [start |-> PyInt(m.group1), end |-> file_size - 1]
        ELSE [start |-> 0, end |-> file_size - 1]

\* start and end after parsing, fastapi_file_server.py stream_file
FastapiParse(range, file_size) ==
    LET m == ReSearch(range.text)
    IN  IF Truthy(range) /\ m.matched
        THEN [start |-> PyInt(m.group1),
              end |-> IF Len(m.group2) > 0 THEN PyInt(m.group2)
                      ELSE file_size - 1]
        ELSE [start |-> 0, end |-> file_size - 1]

\* mutant: the end is clamped to the size, not to the last offset
FastapiClampEndToSize(p, file_size) ==
    IF p.end >= file_size THEN file_size ELSE p.end

\* `if end >= file_size: end = file_size - 1`
FastapiClampEnd(p, file_size) ==
    IF p.end >= file_size THEN file_size - 1 ELSE p.end

FastapiRange(range, file_size) ==
    LET p == FastapiParse(range, file_size)
    IN  IF p.start >= file_size THEN NotSatisfiable(p.start, p.end)
        ELSE Resolved(206, p.start, FastapiClampEnd(p, file_size), TRUE)

\* mutant: a request without a usable Range header is not forced to 206
ThreadedParseNoForce(range_header, file_size) ==
    LET m == ReSearch(range_header.text)
    IN  IF Truthy(range_header) /\ m.matched
        THEN [start |-> PyInt(m.group1),
              end |-> IF Len(m.group2) > 0 THEN PyInt(m.group2)
                      ELSE file_size - 1,
              has_range |-> TRUE]
        ELSE [start |-> 0, end |-> file_size - 1, has_range |-> FALSE]

\* start, end and has_range after parsing, usenet_file_server.py do_GET
\* (media-file-server) and handle_archive_extraction
ThreadedParse(range_header, file_size) ==
    LET m == ReSearch(range_header.text)
    IN  IF Truthy(range_header)
        THEN IF m.matched
             THEN [start |-> PyInt(m.group1),
                   end |-> IF Len(m.group2) > 0 THEN PyInt(m.group2)
                           ELSE file_size - 1,
                   has_range |-> TRUE]
             ELSE [start |-> 0, end |-> file_size - 1, has_range |-> TRUE]
        ELSE [start |-> 0, end |-> file_size - 1, has_range |-> TRUE]

\* mutant: the validation lets start = file_size through
ThreadedRangeOffByOne(range_header, file_size) ==
    LET p == ThreadedParse(range_header, file_size)
    IN  IF p.start > file_size THEN NotSatisfiable(p.start, p.end)
        ELSE Resolved(IF p.has_range THEN 206 ELSE 200, p.start,
                      IF p.end >= file_size THEN file_size - 1 ELSE p.end,
                      p.has_range)

\* `if start >= file_size: 416`, then `if end >= file_size: end = ...`
ThreadedRange(range_header, file_size) ==
    LET p == ThreadedParse(range_header, file_size)
    IN  IF p.start >= file_size THEN NotSatisfiable(p.start, p.end)
        ELSE Resolved(IF p.has_range THEN 206 ELSE 200, p.start,
                      IF p.end >= file_size THEN file_size - 1 ELSE p.end,
                      p.has_range)

\* src/usenet_file_server.py do_GET
SimpleParse(range_header, file_size) ==
    LET m == ReSearch(range_header.text)
    IN  IF Truthy(range_header) /\ m.matched
        THEN [start |-> PyInt(m.group1),
              end |-> IF Len(m.group2) > 0 THEN PyInt(m.group2)
                      ELSE file_size - 1]
        ELSE [start |-> 0, end |-> file_size - 1]

\* mutant: an empty file passes the validation
SimpleRangeServesEmpty(range_header, file_size) ==
    LET p == SimpleParse(range_header, file_size)
    IN  IF p.start >= file_size /\ file_size > 0
        THEN NotSatisfiable(p.start, p.end)
        ELSE Resolved(206, p.start, Min(p.end, file_size - 1), TRUE)

\* `if start >= file_size: 416`, then `end = min(end, file_size - 1)`
SimpleRange(range_header, file_size) ==
    LET p == SimpleParse(range_header, file_size)
    IN  IF p.start >= file_size THEN NotSatisfiable(p.start, p.end)
        ELSE Resolved(206, p.start, Min(p.end, file_size - 1), TRUE)

\* seek_percent = (start / file_size * 100) if file_size > 0 else 0, in
\* whole percents
SeekPercent(s, size) == IF size > 0 THEN (s * 100) \div size ELSE 0

(***************************************************************************)
(* State.                                                                  *)
(***************************************************************************)
VARIABLES
    \* ---- one GET request and its response
    pc,              \* "request", "stream", "done", "reresolved"
    server,          \* which handler served it
    range_header,    \* the Range header of the request
    full_path,       \* the file the request resolves to
    file_size,       \* os.path.getsize of it / size of the archive member
    member_listed,   \* the archive listing names the requested member
    status,          \* HTTP status of the response (0: none yet)
    start, end,      \* resolved range
    content_length,  \* declared Content-Length
    content_range,   \* <<start, end, total>> of Content-Range, or <<>>
    again,           \* resolution of a second request, bytes=start-end
    \* ---- the byte source
    avail,           \* bytes of the file that are materialised so far
    growing,         \* the background extraction is still producing bytes
    fpos,            \* position of the open file handle
    \* ---- the streaming loop
    chunk_size, is_end_seek, max_eof_retries, eof_retries,
    bytes_sent, remaining,
    body,            \* the bytes yielded / written so far
    \* ---- the consumer
    connected,       \* the client's connection is open
    closed_steps,    \* loop iterations run since the client disconnected
    retry_resets,    \* times a non-empty read has reset a running eof_retries
    wait_time        \* the last wait_time slept, in 1/Second s (0: none yet)

VARIABLES
    \* ---- an archive reference `archive path | member name` and its archive
    reference,       \* the request path after `/archive://`, as tokens
    archive_ok,      \* the archive can be listed (no exception)
    listing,         \* the member names the archive lists
    ref_status,      \* outcome of the resolution (0: none yet)
    archive_opened,  \* the archive file was opened to list it
    listed_files     \* the archive members the /api/list response names

VARIABLES
    \* ---- a second streaming request served concurrently by the same
    \* server: the local variables of its handler
    other            \* [pc, start, end, status, fpos, chunk_size, remaining,
                     \*  bytes_sent, eof_retries, max_eof_retries,
                     \*  is_end_seek, body]

VARIABLES
    \* ---- a request to a server started with an API key option: what it
    \* presents and what the handler of its method does
    auth             \* [pc, server, method, api_key, x_api_key, authorization,
                     \*  query, status, streamed, size_disclosed, deleted]

VARIABLES
    \* ---- the server process (main, run_server)
    main_pc          \* "none" (not modelled), "start", "serving"

VARIABLES
    \* ---- the 7z extraction monitor (extract_7z_archives)
    fs,                    \* size of each file of download_dir (0: no file)
    now,                   \* time.time(), in seconds
    mpc,                   \* "scan", "extract", "sleep"
    todo,                  \* files of the directory listing not yet examined
    archive_path,          \* the archive being extracted
    extracted_archives,    \* set of archive paths extracted with success
    archive_stable_times,  \* path -> <<size, time>>, <<>> when untracked
    \* ---- history of the external extraction tool
    inflight,              \* archive -> number of running extractions of it
    succeeded,             \* archives an extraction of which returned 0
    rerun,                 \* archives extracted again after a success
    clock_resets,          \* tracked paths whose entry a changed size replaced
    retry_due,             \* archives whose last extraction has not succeeded
                           \* and whose files have not changed since it began
    replaced,              \* files deleted after their extraction succeeded
    scan_error,            \* `except Exception` has ended the scan under way
    changes                \* number of changes made to download_dir so far

reqVars == <<server, range_header, full_path, file_size, member_listed, status,
             start, end, content_length, content_range, again>>
srcVars == <<avail, growing, fpos>>
loopVars == <<chunk_size, is_end_seek, max_eof_retries, eof_retries,
              bytes_sent, remaining>>
getVars == <<pc, reqVars, srcVars, loopVars, body>>
monVars == <<fs, now, mpc, todo, archive_path, extracted_archives,
             archive_stable_times, inflight, succeeded, rerun, clock_resets,
             retry_due, replaced, scan_error, changes>>
sinkVars == <<connected, closed_steps, retry_resets, wait_time>>
refVars == <<reference, archive_ok, listing, ref_status, archive_opened,
             listed_files>>
extVars == <<refVars, main_pc, other, auth>>
vars == <<getVars, monVars, sinkVars, extVars>>

(***************************************************************************)
(* The 7z extraction monitor: extract_7z_archives.monitor_loop             *)
(* (media-file-server/usenet_file_server.py).  File names are sequences of *)
(* characters; download_dir is one directory, so a path is a file name.    *)
(***************************************************************************)
\* the files that can exist in download_dir: a single archive, a split
\* archive of two parts, and a first part with a shorter base name
FileNames ==
    { <<"a", ".", "7", "z">>,
      <<"a", "b", ".", "7", "z", ".", "0", "0", "1">>,
      <<"a", "b", ".", "7", "z", ".", "0", "0", "2">>,
      <<"a", ".", "7", "z", ".", "0", "0", "1">> }

\* str.lower() on the characters of the model's names
LowerChar(c) ==
    CASE c = "A" -> "a" [] c = "B" -> "b" [] c = "Z" -> "z" [] OTHER -> c

Lower(name) == [i \in 1..Len(name) |-> LowerChar(name[i])]

\* name.endswith(suffix)
EndsWith(name, suffix) ==
    /\ Len(name) >= Len(suffix)
    /\ SubSeq(name, Len(name) - Len(suffix) + 1, Len(name)) = suffix

\* re.match(r'.*\.7z\.\d+$', name)
IsSplitName(name) ==
    \E k \in 1..Len(name) :
        /\ \A i \in (Len(name) - k + 1)..Len(name) : name[i] \in Digits
        /\ EndsWith(SubSeq(name, 1, Len(name) - k), <<".", "7", "z", ".">>)

\* file.lower().endswith('.7z') or re.match(r'.*\.7z\.\d+$', file.lower())
IsSevenZip(file) ==
    EndsWith(Lower(file), <<".", "7", "z">>) \/ IsSplitName(Lower(file))

\* file.lower().endswith('.7z.001')
IsFirstPart(file) ==
    EndsWith(Lower(file), <<".", "7", "z", ".", "0", "0", "1">>)

\* base_name = file[:-8]
BaseName(file) == SubSeq(file, 1, Len(file) - 8)

\* f"{part_num:03d}"
Pad3(n) ==
    IF n < 10 THEN <<"0", "0">> \o PyStr(n)
    ELSE IF n < 100 THEN <<"0">> \o PyStr(n)
    ELSE PyStr(n)

\* part_file = f"{base_name}.7z.{part_num:03d}"
PartFile(base_name, part_num) ==
    base_name \o <<".", "7", "z", ".">> \o Pad3(part_num)

\* os.path.exists(path)
Exists(path) == path \in FileNames /\ fs[path] > 0

NoEntry == <<>>

\* seconds an archive must keep its size
STABLE_SECONDS == 30
\* time.sleep(10)
SLEEP_SECONDS == 10

\* mutant: an unchanged size counts as stable whatever the time elapsed
ObserveStableAtOnce(times, path, current_size, current_time) ==
    IF times[path] = NoEntry \/ current_size # times[path][1]
    THEN [times |-> [times EXCEPT ![path] = <<current_size, current_time>>],
          stable |-> FALSE]
    ELSE [times |-> times, stable |-> TRUE]

\* mutant: a changed size is recorded but the time of the entry is kept
ObserveKeepsClock(times, path, current_size, current_time) ==
    IF times[path] = NoEntry
    THEN [times |-> [times EXCEPT ![path] = <<current_size, current_time>>],
          stable |-> FALSE]
    ELSE IF current_size # times[path][1]
    THEN [times |-> [times EXCEPT ![path] = <<current_size, times[path][2]>>],
          stable |-> FALSE]
    ELSE IF current_time - times[path][2] < STABLE_SECONDS
    THEN [times |-> times, stable |-> FALSE]
    ELSE [times |-> times, stable |-> TRUE]

\* mutant: a path never counts as stable
ObserveNeverStable(times, path, current_size, current_time) ==
    IF times[path] = NoEntry \/ current_size # times[path][1]
    THEN [times |-> [times EXCEPT ![path] = <<current_size, current_time>>],
          stable |-> FALSE]
    ELSE [times |-> times, stable |-> FALSE]

\* mutant: a changed size restarts the clock but the recorded size is kept
ObserveKeepsSize(times, path, current_size, current_time) ==
    IF times[path] = NoEntry
    THEN [times |-> [times EXCEPT ![path] = <<current_size, current_time>>],
          stable |-> FALSE]
    ELSE IF current_size # times[path][1]
    THEN [times |-> [times EXCEPT ![path] = <<times[path][1], current_time>>],
          stable |-> FALSE]
    ELSE IF current_time - times[path][2] < STABLE_SECONDS
    THEN [times |-> times, stable |-> FALSE]
    ELSE [times |-> times, stable |-> TRUE]

\* one observation of a path of size current_size at current_time against
\* the tracking map: the new map and whether the path counts as stable
Observe(times, path, current_size, current_time) ==
    IF times[path] = NoEntry
    THEN [times |-> [times EXCEPT ![path] = <<current_size, current_time>>],
          stable |-> FALSE]
    ELSE IF current_size # times[path][1]
    THEN [times |-> [times EXCEPT ![path] = <<current_size, current_time>>],
          stable |-> FALSE]
    ELSE IF current_time - times[path][2] < STABLE_SECONDS
    THEN [times |-> times, stable |-> FALSE]
    ELSE [times |-> times, stable |-> TRUE]

\* the `while True` over the parts of a split archive, from part_num on:
\* the tracking map afterwards and all_parts_stable
RECURSIVE ProbeParts(_, _, _, _)
ProbeParts(base_name, part_num, times, all_parts_stable) ==
    LET part_path == PartFile(base_name, part_num)
    IN  IF ~Exists(part_path)
        THEN [times |-> times, stable |-> all_parts_stable]
        ELSE LET o == Observe(times, part_path, fs[part_path], now)
             IN  ProbeParts(base_name, part_num + 1, o.times,
                            all_parts_stable /\ o.stable)

\* mutant: an archive already extracted is examined again
AlreadyExtractedNever(path) == FALSE

\* `if archive_path in extracted_archives: continue`
AlreadyExtracted(path) == path \in extracted_archives

\* what examining `file` of the listing leads to: "skip" (continue),
\* "error" (os.path.getsize raises: the file is gone), "wait" (not stable
\* yet) or "extract", with the tracking map afterwards
Examine(file) ==
    IF AlreadyExtracted(file)
    THEN [do |-> "skip", times |-> archive_stable_times]
    ELSE IF IsSplitName(Lower(file))
    THEN IF ~IsFirstPart(file)
         THEN [do |-> "skip", times |-> archive_stable_times]
         ELSE LET r == ProbeParts(BaseName(file), 1, archive_stable_times, TRUE)
              IN  [do |-> IF r.stable THEN "extract" ELSE "wait",
                   times |-> r.times]
    ELSE IF ~Exists(file)
    THEN [do |-> "error", times |-> archive_stable_times]
    ELSE LET o == Observe(archive_stable_times, file, fs[file], now)
         IN  [do |-> IF o.stable THEN "extract" ELSE "wait", times |-> o.times]

\* the monitor thread has just been started
MonitorStarts ==
    /\ now = 0
    /\ mpc = "sleep"
    /\ todo = {}
    /\ archive_path = <<>>
    /\ extracted_archives = {}
    /\ archive_stable_times = [f \in FileNames |-> NoEntry]
    /\ inflight = [f \in FileNames |-> 0]
    /\ succeeded = {}
    /\ rerun = {}
    /\ clock_resets = {}
    /\ retry_due = {}
    /\ replaced = {}
    /\ scan_error = FALSE

\* the monitor thread is started on an empty directory
InitMonitor ==
    /\ fs = [f \in FileNames |-> 0]
    /\ changes = 0
    /\ MonitorStarts

\* no monitor thread runs
NoMonitor ==
    /\ fs = [f \in FileNames |-> 0]
    /\ changes = 0
    /\ now = 0
    /\ mpc = "off"
    /\ todo = {}
    /\ archive_path = <<>>
    /\ extracted_archives = {}
    /\ archive_stable_times = [f \in FileNames |-> NoEntry]
    /\ inflight = [f \in FileNames |-> 0]
    /\ succeeded = {}
    /\ rerun = {}
    /\ clock_resets = {}
    /\ retry_due = {}
    /\ replaced = {}
    /\ scan_error = FALSE

histVars ==
    <<inflight, succeeded, rerun, clock_resets, retry_due, replaced,
      scan_error>>

\* "Remove .7z.001": the name of the split archive whose first part is
\* the file `first`
SplitName(first) == SubSeq(first, 1, Len(first) - 7)

\* the files an archive consists of: the file itself, or the parts
\* name.7z.001, name.7z.002, ... of a split archive
FilesOf(archive) ==
    IF IsFirstPart(archive)
    THEN {p \in FileNames :
            \E n \in 1..Cardinality(FileNames) :
                p = PartFile(SplitName(archive), n)}
    ELSE {archive}

\* the archives a change of file f is a change of
ArchivesOf(f) == {a \in FileNames : f \in FilesOf(a)}

\* the paths whose entry of `times` is replaced in `after`: the size of the
\* path has changed since it was recorded
Replaced(times, after) ==
    {f \in FileNames : times[f] # NoEntry /\ after[f] # times[f]}
dirVars == <<fs, changes>>

\* os.walk(download_dir) lists the directory; the files matching the 7z
\* patterns are examined one by one
ScanStart ==
    /\ mpc = "sleep"
    /\ mpc' = "scan"
    /\ todo' = {f \in FileNames : fs[f] > 0 /\ IsSevenZip(f)}
    /\ scan_error' = FALSE
    /\ UNCHANGED <<dirVars, now, archive_path, extracted_archives,
                   archive_stable_times, inflight, succeeded, rerun,
                   clock_resets, retry_due, replaced,
                   getVars, sinkVars, extVars>>

\* `continue`: the file is extracted already, is not a first part, or is
\* not stable yet
ExamineContinue ==
    /\ mpc = "scan"
    /\ \E file \in todo :
          /\ Examine(file).do \in {"skip", "wait"}
          /\ archive_stable_times' = Examine(file).times
          /\ clock_resets' = clock_resets \cup
                Replaced(archive_stable_times, Examine(file).times)
          /\ todo' = todo \ {file}
    /\ UNCHANGED <<dirVars, now, mpc, archive_path, extracted_archives,
                   inflight, succeeded, rerun, retry_due, replaced,
                   scan_error, getVars,
                   sinkVars, extVars>>

\* mutant: the exception ends the thread
ExamineErrorStops ==
    /\ mpc = "scan"
    /\ \E file \in todo : Examine(file).do = "error"
    /\ todo' = {}
    /\ scan_error' = TRUE
    /\ mpc' = "off"
    /\ UNCHANGED <<dirVars, now, archive_path, extracted_archives,
                   archive_stable_times, inflight, succeeded, rerun,
                   clock_resets, retry_due, replaced,
                   getVars, sinkVars, extVars>>

\* an exception inside the scan ends it: `except Exception` of the loop body
ExamineError ==
    /\ mpc = "scan"
    /\ \E file \in todo : Examine(file).do = "error"
    /\ todo' = {}
    /\ scan_error' = TRUE
    /\ UNCHANGED <<dirVars, now, mpc, archive_path, extracted_archives,
                   archive_stable_times, inflight, succeeded, rerun,
                   clock_resets, retry_due, replaced,
                   getVars, sinkVars, extVars>>

\* the archive is stable: subprocess.run(['7z', 'x', ...]) is started
ExtractBegin ==
    /\ mpc = "scan"
    /\ \E file \in todo :
          /\ Examine(file).do = "extract"
          /\ archive_stable_times' = Examine(file).times
          /\ todo' = todo \ {file}
          /\ archive_path' = file
          /\ inflight' = [inflight EXCEPT ![file] = @ + 1]
          /\ rerun' = IF file \in succeeded THEN rerun \cup {file} ELSE rerun
          /\ clock_resets' = clock_resets \cup
                Replaced(archive_stable_times, Examine(file).times)
          /\ retry_due' = retry_due \cup {file}
    /\ mpc' = "extract"
    /\ UNCHANGED <<dirVars, now, extracted_archives, succeeded, replaced,
                   scan_error,
                   getVars, sinkVars, extVars>>

\* mutant: the stability entry is kept when the extraction succeeds
ExtractSuccessKeepsEntry ==
    /\ mpc = "extract"
    /\ mpc' = "scan"
    /\ extracted_archives' = extracted_archives \cup {archive_path}
    /\ inflight' = [inflight EXCEPT ![archive_path] = @ - 1]
    /\ succeeded' = succeeded \cup {archive_path}
    /\ clock_resets' = clock_resets \ {archive_path}
    /\ retry_due' = retry_due \ {archive_path}
    /\ UNCHANGED <<dirVars, now, todo, archive_path, rerun, replaced,
                   scan_error,
                   archive_stable_times, getVars, sinkVars, extVars>>

\* result.returncode == 0
ExtractSuccess ==
    /\ mpc = "extract"
    /\ mpc' = "scan"
    /\ extracted_archives' = extracted_archives \cup {archive_path}
    /\ archive_stable_times' =
          [archive_stable_times EXCEPT ![archive_path] = NoEntry]
    /\ inflight' = [inflight EXCEPT ![archive_path] = @ - 1]
    /\ succeeded' = succeeded \cup {archive_path}
    /\ clock_resets' = clock_resets \ {archive_path}
    /\ retry_due' = retry_due \ {archive_path}
    /\ UNCHANGED <<dirVars, now, todo, archive_path, rerun, replaced,
                   scan_error,
                   getVars, sinkVars, extVars>>

\* mutant: a failed extraction drops the stability entry of the archive
ExtractFailureForgets ==
    /\ mpc = "extract"
    /\ mpc' = "scan"
    /\ inflight' = [inflight EXCEPT ![archive_path] = @ - 1]
    /\ archive_stable_times' =
          [archive_stable_times EXCEPT ![archive_path] = NoEntry]
    /\ UNCHANGED <<dirVars, now, todo, archive_path, extracted_archives,
                   succeeded, rerun, clock_resets, retry_due, replaced,
                   scan_error,
                   getVars, sinkVars, extVars>>

\* returncode 2, any other returncode, TimeoutExpired or another exception
\* of subprocess.run: nothing is recorded
ExtractFailure ==
    /\ mpc = "extract"
    /\ mpc' = "scan"
    /\ inflight' = [inflight EXCEPT ![archive_path] = @ - 1]
    /\ UNCHANGED <<dirVars, now, todo, archive_path, extracted_archives,
                   archive_stable_times, succeeded, rerun, clock_resets,
                   retry_due, replaced,
                   scan_error, getVars, sinkVars, extVars>>

\* the scan is over: time.sleep(10)
Sleep ==
    /\ mpc = "scan"
    /\ todo = {}
    /\ now + SLEEP_SECONDS <= MaxNow
    /\ now' = now + SLEEP_SECONDS
    /\ mpc' = "sleep"
    /\ UNCHANGED <<dirVars, todo, archive_path, extracted_archives,
                   archive_stable_times, histVars, getVars, sinkVars, extVars>>

\* subprocess.run takes time: up to its timeout of 300 seconds
ClockAdvance ==
    /\ mpc = "extract"
    /\ now + SLEEP_SECONDS <= MaxNow
    /\ now' = now + SLEEP_SECONDS
    /\ UNCHANGED <<dirVars, mpc, todo, archive_path, extracted_archives,
                   archive_stable_times, histVars, getVars, sinkVars, extVars>>

\* the download writes more of a file, or creates it
FileGrows ==
    /\ mpc # "off" \/ main_pc # "none"
    /\ changes < MaxChanges
    /\ changes' = changes + 1
    /\ \E f \in FileNames :
          /\ fs[f] < MaxFileSize
          /\ fs' = [fs EXCEPT ![f] = @ + 1]
          /\ retry_due' = retry_due \ ArchivesOf(f)
    /\ UNCHANGED <<now, mpc, todo, archive_path, extracted_archives,
                   archive_stable_times, inflight, succeeded, rerun,
                   clock_resets, replaced,
                   scan_error, getVars, sinkVars, extVars>>

\* a file is deleted
FileRemoved ==
    /\ mpc # "off" \/ main_pc # "none"
    /\ changes < MaxChanges
    /\ changes' = changes + 1
    /\ \E f \in FileNames :
          /\ fs[f] > 0
          /\ fs' = [fs EXCEPT ![f] = 0]
          /\ retry_due' = retry_due \ ArchivesOf(f)
          /\ replaced' = IF f \in succeeded THEN replaced \cup {f}
                         ELSE replaced
    /\ UNCHANGED <<now, mpc, todo, archive_path, extracted_archives,
                   archive_stable_times, inflight, succeeded, rerun,
                   clock_resets, scan_error, getVars, sinkVars, extVars>>

(***************************************************************************)
(* The file and its source.                                                *)
(***************************************************************************)
Paths == {"/mnt/rarfs/v.mkv", "/data/a.rar/v.mkv", "/data/v.mkv"}

\* '/mnt/rarfs' in full_path or '.rar' in full_path.lower()
IsRar2fs(p) == p \in {"/mnt/rarfs/v.mkv", "/data/a.rar/v.mkv"}

\* the byte stored at offset i of the file (distinct for distinct offsets)
FileByte(i) == (7 * i + 3) % 256

\* the bytes at offsets [from, from + n)
FileBytes(from, n) == [k \in 1..n |-> FileByte(from + k - 1)]

\* lengths f.read(to_read) can return at position pos: nothing when no
\* byte is materialised there, else at least one byte and at most to_read
ReadLens(pos, to_read) ==
    IF to_read <= 0 \/ avail <= pos THEN {0}
    ELSE 1..Min(to_read, avail - pos)

(***************************************************************************)
(* Archive members (usenet_file_server.py, media-file-server).             *)
(***************************************************************************)
\* mutant: the slice starts at the first byte of the member
PySliceFromZero(data, a, b) == SubSeq(data, 1, Min(b, Len(data)))

\* data[a:b] of Python for 0 <= a, 0 <= b
PySlice(data, a, b) == SubSeq(data, a + 1, Min(b, Len(data)))

\* extract_file_from_archive: the whole member is decompressed, then sliced
ExtractFileFromArchive(member, start_byte, end_byte) ==
    IF start_byte # 0 \/ end_byte # 0
    THEN PySlice(member, start_byte, end_byte)
    ELSE member

\* the tokens an archive reference is made of
RefTokens == {"a.zip", "x.zip", "v.mkv", "|"}

\* the references of up to MaxRefLen tokens
References == UNION {[1..n -> RefTokens] : n \in 0..MaxRefLen}

\* the member names an archive can list
MemberNames == {<<"v.mkv">>, <<"v.mkv", "|", "v.mkv">>}

\* index of the first '|' of p (0: none)
FirstPipe(p) ==
    IF \E i \in 1..Len(p) : p[i] = "|"
    THEN CHOOSE i \in 1..Len(p) :
            p[i] = "|" /\ \A j \in 1..(i - 1) : p[j] # "|"
    ELSE 0

\* path_without_prefix.split('|', 1)
SplitPipe(p) ==
    [archive_rel_path |-> SubSeq(p, 1, FirstPipe(p) - 1),
     internal_file |-> SubSeq(p, FirstPipe(p) + 1, Len(p))]

\* os.path.exists(os.path.join(root_dir, rel)): the served directory holds
\* the archive a.zip; the empty path joins to the directory itself
PathExists(rel) == rel = <<>> \/ rel = <<"a.zip">>

\* the archives find_archives_in_directory finds in the served directory:
\* a.zip, and b.zip which is always readable and lists w.mkv
DirArchives == {"a.zip", "b.zip"}

\* lower.endswith('.zip')
EndsWithZip(path) ==
    path # <<>> /\ path[Len(path)] \in {"a.zip", "x.zip", "b.zip"}

\* mutant: a failing archive is listed as if it could be read
ListArchiveContentsUnguarded(path) ==
    IF ~EndsWithZip(path) THEN {}
    ELSE IF path = <<"b.zip">> THEN {<<"w.mkv">>}
    ELSE listing

\* list_archive_contents: the names listed; [] for a path that is no
\* archive and when opening or listing raises
ListArchiveContents(path) ==
    IF ~EndsWithZip(path) THEN {}
    ELSE IF path = <<"b.zip">> THEN {<<"w.mkv">>}
    ELSE IF ~archive_ok THEN {}
    ELSE listing

\* handle_archive_extraction up to the member lookup: 400 without a '|',
\* 404 for a missing archive or member, else (200) on to the range
ResolveReference(p) ==
    LET parts == SplitPipe(p)
        files == ListArchiveContents(parts.archive_rel_path)
    IN  IF FirstPipe(p) = 0 THEN [status |-> 400, opened |-> FALSE]
        ELSE IF ~PathExists(parts.archive_rel_path)
        THEN [status |-> 404, opened |-> FALSE]
        ELSE IF parts.internal_file \notin files
        THEN [status |-> 404,
              opened |-> EndsWithZip(parts.archive_rel_path)]
        ELSE [status |-> 200, opened |-> TRUE]

\* no request with credentials
NoAuth == [pc |-> "none"]

\* no second request
NoOther == [pc |-> "none"]

\* a second request that has not been handled yet
OtherRequest == [pc |-> "request"]

\* no archive reference is resolved
NoReference ==
    /\ reference = <<>>
    /\ archive_ok = TRUE
    /\ listing = {}
    /\ ref_status = 0
    /\ archive_opened = FALSE
    /\ listed_files = {}
    /\ main_pc = "none"
    /\ other = NoOther
    /\ auth = NoAuth

(***************************************************************************)
(* Initial states: a request about to be handled.                          *)
(***************************************************************************)
InitHandler(hdrs, sizes, paths) ==
    /\ pc = "request"
    /\ server = "none"
    /\ range_header \in hdrs
    /\ full_path \in paths
    /\ file_size \in sizes
    /\ member_listed = FALSE
    /\ status = 0
    /\ start = 0
    /\ end = 0
    /\ content_length = 0
    /\ content_range = <<>>
    /\ again = <<>>
    /\ growing \in BOOLEAN
    /\ avail \in IF growing THEN {0} ELSE 0..file_size
    /\ fpos = 0
    /\ chunk_size = DEFAULT_CHUNK
    /\ is_end_seek = FALSE
    /\ max_eof_retries = 0
    /\ eof_retries = 0
    /\ bytes_sent = 0
    /\ remaining = 0
    /\ body = <<>>
    /\ connected = TRUE
    /\ closed_steps = 0
    /\ retry_resets = 0
    /\ wait_time = 0

\* a request in a process without a monitor thread
InitRequest(hdrs, sizes, paths) ==
    /\ InitHandler(hdrs, sizes, paths)
    /\ NoMonitor

(***************************************************************************)
(* The handlers up to the response headers.                                *)
(***************************************************************************)
\* what a handler does with a resolved range r: 416, or the headers and
\* the open file positioned at start
Respond(srv, r) ==
    /\ server' = srv
    /\ status' = r.status
    /\ start' = r.start
    /\ end' = r.end
    /\ content_length' = r.content_length
    /\ content_range' = IF r.content_range
                        THEN <<r.start, r.end, file_size>> ELSE <<>>
    /\ pc' = IF r.status = 416 THEN "done" ELSE "stream"
    /\ fpos' = IF r.status = 416 THEN fpos ELSE r.start
    /\ remaining' = r.content_length
    /\ bytes_sent' = 0
    /\ eof_retries' = 0
    /\ UNCHANGED <<range_header, full_path, file_size, member_listed, again,
                   avail, growing, body>>

\* the chunk sizes stream_file_range is called with
ChunkSizes == (1..MaxChunk) \cup {DEFAULT_CHUNK}

\* mutant: the file need not be served through rar2fs
IsEndSeekAnyFile(is_rar2fs, s, size) ==
    IF size > 0 THEN 10 * s > 9 * size ELSE FALSE

\* is_end_seek = is_rar2fs and (start / file_size > 0.9) if file_size > 0
\* else False
IsEndSeek(is_rar2fs, s, size) ==
    IF size > 0 THEN is_rar2fs /\ 10 * s > 9 * size ELSE FALSE

\* max_eof_retries = 3 if is_end_seek else (30 if is_rar2fs else 10)
MaxEofRetries(end_seek, is_rar2fs) ==
    IF end_seek THEN 3 ELSE IF is_rar2fs THEN 30 ELSE 10

\* fastapi_file_server.py stream_file, and the start of stream_file_range
FastapiGet ==
    /\ pc = "request"
    /\ LET r == FastapiRange(range_header, file_size)
           es == IsEndSeek(IsRar2fs(full_path), r.start, file_size)
       IN  /\ Respond("fastapi", r)
           /\ is_end_seek' = es
           /\ max_eof_retries' = MaxEofRetries(es, IsRar2fs(full_path))
    /\ chunk_size' \in ChunkSizes
    /\ UNCHANGED <<monVars, sinkVars, extVars>>

\* media-file-server/usenet_file_server.py do_GET, direct file
ThreadedGet ==
    /\ pc = "request"
    /\ Respond("threaded", ThreadedRange(range_header, file_size))
    /\ chunk_size' = DEFAULT_CHUNK
    /\ UNCHANGED <<is_end_seek, max_eof_retries>>
    /\ UNCHANGED <<monVars, sinkVars, extVars>>

\* src/usenet_file_server.py do_GET
SimpleGet ==
    /\ pc = "request"
    /\ Respond("simple", SimpleRange(range_header, file_size))
    /\ chunk_size' = SIMPLE_CHUNK
    /\ UNCHANGED <<is_end_seek, max_eof_retries>>
    /\ UNCHANGED <<monVars, sinkVars, extVars>>

\* mutant: the member is unpacked into the watched directory, over what a
\* file of that name held
ArchiveGetExtractsToDisk ==
    /\ pc = "request"
    /\ server' = "archive"
    /\ pc' = "done"
    /\ member_listed' \in BOOLEAN
    /\ LET r == ThreadedRange(range_header, file_size)
           data == ExtractFileFromArchive(FileBytes(0, file_size),
                                          r.start, r.end + 1)
       IN  IF ~member_listed'
           THEN /\ status' = 404
                /\ UNCHANGED <<start, end, content_length, content_range, body>>
           ELSE /\ start' = r.start
                /\ end' = r.end
                /\ IF r.status = 416
                   THEN /\ status' = 416
                        /\ UNCHANGED <<content_length, content_range, body>>
                   ELSE IF Len(data) = 0
                   THEN /\ status' = 500
                        /\ UNCHANGED <<content_length, content_range, body>>
                   ELSE /\ status' = r.status
                        /\ content_range' = IF r.content_range
                                            THEN <<r.start, r.end, file_size>>
                                            ELSE <<>>
                        /\ content_length' = Len(data)
                        /\ body' = data
    /\ UNCHANGED <<range_header, full_path, file_size, again,
                   srcVars, loopVars>>
    /\ fs' = [fs EXCEPT ![<<"a", ".", "7", "z">>] =
                             IF @ = 0 THEN MaxFileSize ELSE 0]
    /\ UNCHANGED <<changes, now, mpc, todo, archive_path, extracted_archives,
                   archive_stable_times, histVars, sinkVars, extVars>>

\* media-file-server/usenet_file_server.py handle_archive_extraction, from
\* the member lookup on; the member is file_size bytes long
ArchiveGet ==
    /\ pc = "request"
    /\ server' = "archive"
    /\ pc' = "done"
    /\ member_listed' \in BOOLEAN
    /\ LET r == ThreadedRange(range_header, file_size)
           data == ExtractFileFromArchive(FileBytes(0, file_size),
                                          r.start, r.end + 1)
       IN  IF ~member_listed'
           THEN /\ status' = 404
                /\ UNCHANGED <<start, end, content_length, content_range, body>>
           ELSE /\ start' = r.start
                /\ end' = r.end
                /\ IF r.status = 416
                   THEN /\ status' = 416
                        /\ UNCHANGED <<content_length, content_range, body>>
                   ELSE IF Len(data) = 0
                   THEN /\ status' = 500
                        /\ UNCHANGED <<content_length, content_range, body>>
                   ELSE /\ status' = r.status
                        /\ content_range' = IF r.content_range
                                            THEN <<r.start, r.end, file_size>>
                                            ELSE <<>>
                        /\ content_length' = Len(data)
                        /\ body' = data
    /\ UNCHANGED <<range_header, full_path, file_size, again,
                   srcVars, loopVars>>
    /\ UNCHANGED <<monVars, sinkVars, extVars>>

\* handle_archive_extraction, from the request path to the member lookup
ArchiveResolve ==
    /\ pc = "request"
    /\ server' = "archive"
    /\ pc' = "done"
    /\ LET r == ResolveReference(reference)
       IN  /\ ref_status' = r.status
           /\ archive_opened' = r.opened
           /\ member_listed' = (r.status = 200)
           /\ status' = IF r.status = 200 THEN status ELSE r.status
    /\ UNCHANGED <<range_header, full_path, file_size, start, end,
                   content_length, content_range, again, srcVars, loopVars,
                   body>>
    /\ UNCHANGED <<reference, archive_ok, listing, listed_files, main_pc,
                   other, auth>>
    /\ UNCHANGED <<monVars, sinkVars>>

\* handle_list_files, the scan for archives: every member of every archive
\* found is listed as `archive://{archive}|{member}`
HandleListFiles ==
    /\ pc = "request"
    /\ server' = "list"
    /\ pc' = "done"
    /\ status' = 200
    /\ listed_files' =
          UNION {{<<ar, "|">> \o name : name \in ListArchiveContents(<<ar>>)}
                 : ar \in DirArchives}
    /\ UNCHANGED <<range_header, full_path, file_size, member_listed, start,
                   end, content_length, content_range, again, srcVars,
                   loopVars, body>>
    /\ UNCHANGED <<reference, archive_ok, listing, ref_status, archive_opened,
                   main_pc, other, auth>>
    /\ UNCHANGED <<monVars, sinkVars>>

\* the bytes handle_archive_extraction gets from extract_file_from_archive
\* for a header h and a listed member of size bytes
ArchiveData(h, size) ==
    LET r == ThreadedRange(h, size)
    IN  ExtractFileFromArchive(FileBytes(0, size), r.start, r.end + 1)

\* the range a handler resolves for a header
RangeOf(srv, h, size) ==
    CASE srv = "fastapi" -> FastapiRange(h, size)
      [] srv = "simple" -> SimpleRange(h, size)
      [] OTHER -> ThreadedRange(h, size)

\* the header `bytes={start}-{end}`
RangeHeaderFor(s, e) == HeaderOf(<<"bytes=">> \o PyStr(s) \o <<"-">> \o PyStr(e))

\* the client asks again, for exactly the range the response announced
ReRequest ==
    /\ pc \in {"stream", "done"}
    /\ status = 206
    /\ again = <<>>
    /\ LET r == RangeOf(server, RangeHeaderFor(start, end), file_size)
       IN  again' = <<r.status, r.start, r.end>>
    /\ pc' = "reresolved"
    /\ UNCHANGED <<server, range_header, full_path, file_size, member_listed,
                   status, start, end, content_length, content_range,
                   srcVars, loopVars, body>>
    /\ UNCHANGED <<monVars, sinkVars, extVars>>

(***************************************************************************)
(* The byte source: a background extraction materialises more bytes.       *)
(***************************************************************************)
Materialise ==
    /\ pc = "stream"
    /\ growing
    /\ avail < file_size
    /\ avail' = avail + 1
    /\ UNCHANGED <<pc, reqVars, growing, fpos, loopVars, body>>
    /\ UNCHANGED <<monVars, sinkVars, extVars>>

(***************************************************************************)
(* The consumer: the client may close its connection while the body is     *)
(* streamed.  A write to the closed socket raises BrokenPipeError.         *)
(***************************************************************************)
Disconnect ==
    /\ pc = "stream"
    /\ connected
    /\ connected' = FALSE
    /\ closed_steps' = 0
    /\ UNCHANGED <<getVars, monVars, retry_resets, wait_time, extVars>>

\* an iteration of a streaming loop has run; it is counted once the client
\* has gone, and so is a reset of eof_retries from a positive value
\* the ticks of a second: 0.1 * 1.5 ** k is a whole number of them for
\* every k up to 10
Second == 10240

\* mutant: the wait is not capped
WaitTimeUncapped(k) ==
    ((Second \div 10) * (3 ^ Min(k, 10))) \div (2 ^ Min(k, 10))

\* wait_time = min(1.0, 0.1 * (1.5 ** min(eof_retries, 10)))
WaitTime(k) ==
    Min(Second, ((Second \div 10) * (3 ^ Min(k, 10))) \div (2 ^ Min(k, 10)))

LoopStep ==
    /\ wait_time' = IF eof_retries' = eof_retries + 1
                    THEN WaitTime(eof_retries') ELSE wait_time
    /\ connected' = connected
    /\ closed_steps' = IF connected THEN closed_steps
                       ELSE Min(closed_steps + 1, MaxClosedSteps)
    /\ retry_resets' = IF eof_retries > 0 /\ eof_retries' = 0
                       THEN Min(retry_resets + 1, MaxRetryResets)
                       ELSE retry_resets

(***************************************************************************)
(* stream_file_range (fastapi_file_server.py): one action per outcome of   *)
(* an iteration of `while remaining > 0`.                                  *)
(***************************************************************************)
\* mutant: a whole chunk is read whatever remains of the range
ToReadUncapped(csize, rem) == csize

\* to_read = min(chunk_size, remaining)
ToRead(csize, rem) == Min(csize, rem)

\* mutant: remaining is decreased by the length asked for, not the length read
EmitCountsAsked(n) ==
    /\ body' = body \o FileBytes(fpos, n)
    /\ fpos' = fpos + n
    /\ bytes_sent' = bytes_sent + n
    /\ remaining' = remaining - ToRead(chunk_size, remaining)

\* mutant: remaining is not decreased
EmitKeepsRemaining(n) ==
    /\ body' = body \o FileBytes(fpos, n)
    /\ fpos' = fpos + n
    /\ bytes_sent' = bytes_sent + n
    /\ remaining' = remaining

\* the updates after a non-empty read of n bytes: the chunk goes out,
\* bytes_sent and remaining follow
Emit(n) ==
    /\ body' = body \o FileBytes(fpos, n)
    /\ fpos' = fpos + n
    /\ bytes_sent' = bytes_sent + n
    /\ remaining' = remaining - n

\* mutant: the retry counter is kept over a non-empty read
FastapiYieldKeepsCounter ==
    /\ pc = "stream" /\ server = "fastapi"
    /\ connected
    /\ remaining > 0
    /\ \E n \in ReadLens(fpos, ToRead(chunk_size, remaining)) :
          /\ n > 0
          /\ Emit(n)
    /\ eof_retries' = eof_retries
    /\ UNCHANGED <<pc, reqVars, avail, growing, chunk_size, is_end_seek,
                   max_eof_retries>>
    /\ LoopStep
    /\ UNCHANGED <<monVars, extVars>>

\* a non-empty read: `eof_retries = 0`, `yield chunk`
FastapiYield ==
    /\ pc = "stream" /\ server = "fastapi"
    /\ connected
    /\ remaining > 0
    /\ \E n \in ReadLens(fpos, ToRead(chunk_size, remaining)) :
          /\ n > 0
          /\ Emit(n)
    /\ eof_retries' = 0
    /\ UNCHANGED <<pc, reqVars, avail, growing, chunk_size, is_end_seek,
                   max_eof_retries>>
    /\ LoopStep
    /\ UNCHANGED <<monVars, extVars>>

\* `yield chunk` once the client has gone: the response that drives the
\* generator cannot send the chunk and closes the generator
FastapiYieldClosed ==
    /\ pc = "stream" /\ server = "fastapi"
    /\ ~connected
    /\ remaining > 0
    /\ \E n \in ReadLens(fpos, ToRead(chunk_size, remaining)) :
          /\ n > 0
          /\ fpos' = fpos + n
    /\ eof_retries' = 0
    /\ pc' = "done"
    /\ LoopStep
    /\ UNCHANGED <<reqVars, avail, growing, chunk_size, is_end_seek,
                   max_eof_retries, bytes_sent, remaining, body>>
    /\ UNCHANGED <<monVars, extVars>>

\* `if not chunk:` in an iteration
FastapiEmptyRead ==
    /\ pc = "stream" /\ server = "fastapi"
    /\ remaining > 0
    /\ 0 \in ReadLens(fpos, ToRead(chunk_size, remaining))

\* `if is_end_seek and eof_retries == 0: break`
FastapiEndSeekBreak ==
    /\ FastapiEmptyRead
    /\ is_end_seek /\ eof_retries = 0
    /\ pc' = "done"
    /\ UNCHANGED <<reqVars, srcVars, loopVars, body>>
    /\ LoopStep
    /\ UNCHANGED <<monVars, extVars>>

\* mutant: the loop gives up at an empty read whatever the retries so far
FastapiGiveUpAtOnce ==
    /\ FastapiEmptyRead
    /\ ~(is_end_seek /\ eof_retries = 0)
    /\ pc' = "done"
    /\ UNCHANGED <<reqVars, srcVars, loopVars, body>>
    /\ LoopStep
    /\ UNCHANGED <<monVars, extVars>>

\* `if eof_retries >= max_eof_retries: break`
FastapiGiveUp ==
    /\ FastapiEmptyRead
    /\ ~(is_end_seek /\ eof_retries = 0)
    /\ eof_retries >= max_eof_retries
    /\ pc' = "done"
    /\ UNCHANGED <<reqVars, srcVars, loopVars, body>>
    /\ LoopStep
    /\ UNCHANGED <<monVars, extVars>>

\* mutant: the retry is not counted
FastapiRetryUncounted ==
    /\ FastapiEmptyRead
    /\ ~(is_end_seek /\ eof_retries = 0)
    /\ eof_retries < max_eof_retries
    /\ UNCHANGED vars

\* `eof_retries += 1`, sleep, `continue`
FastapiRetry ==
    /\ FastapiEmptyRead
    /\ ~(is_end_seek /\ eof_retries = 0)
    /\ eof_retries < max_eof_retries
    /\ eof_retries' = eof_retries + 1
    /\ UNCHANGED <<pc, reqVars, srcVars, chunk_size, is_end_seek,
                   max_eof_retries, bytes_sent, remaining, body>>
    /\ LoopStep
    /\ UNCHANGED <<monVars, extVars>>

\* `await asyncio.sleep(wait_time)` once the client has gone: the loop has
\* no check of its own; the response that drives the generator may cancel
\* it at this await, or leave it running (FastapiRetry)
FastapiCancelled ==
    /\ FastapiEmptyRead
    /\ ~connected
    /\ ~(is_end_seek /\ eof_retries = 0)
    /\ eof_retries < max_eof_retries
    /\ eof_retries' = eof_retries + 1
    /\ pc' = "done"
    /\ LoopStep
    /\ UNCHANGED <<reqVars, srcVars, chunk_size, is_end_seek,
                   max_eof_retries, bytes_sent, remaining, body>>
    /\ UNCHANGED <<monVars, extVars>>

\* the loop condition fails: the generator is exhausted
FastapiFinish ==
    /\ pc = "stream" /\ server = "fastapi"
    /\ remaining <= 0
    /\ pc' = "done"
    /\ UNCHANGED <<reqVars, srcVars, loopVars, body>>
    /\ UNCHANGED <<monVars, sinkVars, extVars>>

(***************************************************************************)
(* The streaming loop of do_GET, media-file-server/usenet_file_server.py.  *)
(***************************************************************************)
ThreadedWrite ==
    /\ pc = "stream" /\ server = "threaded"
    /\ connected
    /\ remaining > 0
    /\ \E n \in ReadLens(fpos, ToRead(chunk_size, remaining)) :
          /\ n > 0
          /\ Emit(n)
    /\ UNCHANGED <<pc, reqVars, avail, growing, chunk_size, is_end_seek,
                   max_eof_retries, eof_retries>>
    /\ LoopStep
    /\ UNCHANGED <<monVars, extVars>>

\* `except BrokenPipeError: ... break`: the chunk was read, the write to the
\* closed socket raised
ThreadedBrokenPipe ==
    /\ pc = "stream" /\ server = "threaded"
    /\ ~connected
    /\ remaining > 0
    /\ \E n \in ReadLens(fpos, ToRead(chunk_size, remaining)) :
          /\ n > 0
          /\ fpos' = fpos + n
    /\ pc' = "done"
    /\ UNCHANGED <<reqVars, avail, growing, loopVars, body>>
    /\ LoopStep
    /\ UNCHANGED <<monVars, extVars>>

\* `if not chunk: break` (unexpected EOF)
ThreadedEof ==
    /\ pc = "stream" /\ server = "threaded"
    /\ remaining > 0
    /\ 0 \in ReadLens(fpos, ToRead(chunk_size, remaining))
    /\ pc' = "done"
    /\ UNCHANGED <<reqVars, srcVars, loopVars, body>>
    /\ LoopStep
    /\ UNCHANGED <<monVars, extVars>>

ThreadedFinish ==
    /\ pc = "stream" /\ server = "threaded"
    /\ remaining <= 0
    /\ pc' = "done"
    /\ UNCHANGED <<reqVars, srcVars, loopVars, body>>
    /\ UNCHANGED <<monVars, sinkVars, extVars>>

(***************************************************************************)
(* The streaming loop of do_GET, src/usenet_file_server.py.  It keeps no   *)
(* bytes_sent counter.                                                     *)
(***************************************************************************)
SimpleWrite ==
    /\ pc = "stream" /\ server = "simple"
    /\ connected
    /\ remaining > 0
    /\ \E n \in ReadLens(fpos, Min(chunk_size, remaining)) :
          /\ n > 0
          /\ body' = body \o FileBytes(fpos, n)
          /\ fpos' = fpos + n
          /\ remaining' = remaining - n
    /\ UNCHANGED <<pc, reqVars, avail, growing, chunk_size, is_end_seek,
                   max_eof_retries, eof_retries, bytes_sent>>
    /\ LoopStep
    /\ UNCHANGED <<monVars, extVars>>

\* `except (BrokenPipeError, ConnectionResetError, ...): break`
SimpleBrokenPipe ==
    /\ pc = "stream" /\ server = "simple"
    /\ ~connected
    /\ remaining > 0
    /\ \E n \in ReadLens(fpos, Min(chunk_size, remaining)) :
          /\ n > 0
          /\ fpos' = fpos + n
    /\ pc' = "done"
    /\ UNCHANGED <<reqVars, avail, growing, loopVars, body>>
    /\ LoopStep
    /\ UNCHANGED <<monVars, extVars>>

SimpleEof ==
    /\ pc = "stream" /\ server = "simple"
    /\ remaining > 0
    /\ 0 \in ReadLens(fpos, Min(chunk_size, remaining))
    /\ pc' = "done"
    /\ UNCHANGED <<reqVars, srcVars, loopVars, body>>
    /\ LoopStep
    /\ UNCHANGED <<monVars, extVars>>

SimpleFinish ==
    /\ pc = "stream" /\ server = "simple"
    /\ remaining <= 0
    /\ pc' = "done"
    /\ UNCHANGED <<reqVars, srcVars, loopVars, body>>
    /\ UNCHANGED <<monVars, sinkVars, extVars>>

(***************************************************************************)
(* Specifications.                                                         *)
(***************************************************************************)
\* the offsets a streaming client asks for
StreamOffsets == (0..MaxSize) \cup {EndSeekSize - 1}

StreamHeaders ==
    {NoHeader}
    \cup {RangeHeaderFor(s, e) : s \in StreamOffsets, e \in StreamOffsets}
    \cup {HeaderOf(<<"bytes=">> \o PyStr(s) \o <<"-">>) : s \in StreamOffsets}

StreamSizes == (0..MaxSize) \cup {EndSeekSize}

\* requests with their response bodies
Init == InitRequest(StreamHeaders, StreamSizes, Paths) /\ NoReference

Next ==
    \/ FastapiGet \/ ThreadedGet \/ SimpleGet \/ ArchiveGet
    \/ Materialise
    \/ FastapiYield \/ FastapiEndSeekBreak \/ FastapiGiveUp \/ FastapiRetry
    \/ FastapiFinish
    \/ ThreadedWrite \/ ThreadedEof \/ ThreadedFinish
    \/ SimpleWrite \/ SimpleEof \/ SimpleFinish

Spec == Init /\ [][Next]_vars

\* a player asks for the whole file or for the file from an offset on
OpenEndedHeaders ==
    {NoHeader}
    \cup {HeaderOf(<<"bytes=">> \o PyStr(s) \o <<"-">>) : s \in StreamOffsets}

\* the file of EndSeekSize bytes is asked for from its last byte on
InitOpenEnded ==
    /\ InitRequest(OpenEndedHeaders, StreamSizes, Paths)
    /\ NoReference
    /\ file_size = EndSeekSize =>
          range_header = HeaderOf(<<"bytes=">> \o PyStr(EndSeekSize - 1) \o <<"-">>)

\* requests whose client may disconnect while the body is streamed
NextDisconnect ==
    \/ Next
    \/ Disconnect
    \/ FastapiYieldClosed \/ FastapiCancelled
    \/ ThreadedBrokenPipe \/ SimpleBrokenPipe

SpecDisconnect == InitOpenEnded /\ [][NextDisconnect]_vars

\* archive references of every shape, against an archive that lists its
\* members or fails to
InitReference ==
    /\ InitRequest({NoHeader}, {MaxSize}, {"/data/v.mkv"})
    /\ ~growing /\ avail = file_size
    /\ reference \in References
    /\ archive_ok \in BOOLEAN
    /\ listing \in SUBSET MemberNames
    /\ ref_status = 0
    /\ archive_opened = FALSE
    /\ listed_files = {}
    /\ main_pc = "none"
    /\ other = NoOther
    /\ auth = NoAuth

NextReference == ArchiveResolve \/ HandleListFiles

SpecReference == InitReference /\ [][NextReference]_vars

(***************************************************************************)
(* Two requests at once.  The FastAPI event loop interleaves generators at *)
(* their awaits, the ThreadingHTTPServer runs one thread per request; each *)
(* request opens the file for itself and keeps start, remaining,           *)
(* bytes_sent and eof_retries in local variables.  The second request is   *)
(* the record `other`, handled by the server of the first.                 *)
(***************************************************************************)
\* the headers of the second request
OtherHeaders ==
    {NoHeader}
    \cup {HeaderOf(<<"bytes=">> \o PyStr(s) \o <<"-">>) : s \in 0..MaxSize}

\* the read sizes of the second request: byte by byte, or the default
OtherChunkSizes == {1, DEFAULT_CHUNK}

\* the second request is resolved and its file opened at start
OtherGet ==
    /\ pc # "request"
    /\ server \in {"fastapi", "threaded"}
    /\ other.pc = "request"
    /\ \E h \in OtherHeaders, cs \in OtherChunkSizes :
          LET r == RangeOf(server, h, file_size)
              es == IF server = "fastapi"
                    THEN IsEndSeek(IsRar2fs(full_path), r.start, file_size)
                    ELSE FALSE
          IN  other' =
                [pc |-> IF r.status = 416 THEN "done" ELSE "stream",
                 start |-> r.start,
                 end |-> r.end,
                 status |-> r.status,
                 fpos |-> r.start,
                 chunk_size |-> IF server = "fastapi" THEN cs
                                ELSE DEFAULT_CHUNK,
                 remaining |-> r.content_length,
                 bytes_sent |-> 0,
                 eof_retries |-> 0,
                 max_eof_retries |->
                     IF server = "fastapi"
                     THEN MaxEofRetries(es, IsRar2fs(full_path)) ELSE 0,
                 is_end_seek |-> es,
                 body |-> <<>>]
    /\ UNCHANGED <<getVars, monVars, sinkVars, refVars, main_pc, auth>>

\* mutant: the retry counter is one variable shared by the requests
OtherReadSharedCounter ==
    /\ other.pc = "stream"
    /\ other.remaining > 0
    /\ \E n \in ReadLens(other.fpos,
                          ToRead(other.chunk_size, other.remaining)) :
          /\ n > 0
          /\ other' = [other EXCEPT
                         !.body = @ \o FileBytes(other.fpos, n),
                         !.fpos = @ + n,
                         !.bytes_sent = @ + n,
                         !.remaining = @ - n,
                         !.eof_retries = 0]
    /\ eof_retries' = 0
    /\ UNCHANGED <<pc, reqVars, srcVars, chunk_size, is_end_seek,
                   max_eof_retries, bytes_sent, remaining, body>>
    /\ UNCHANGED <<monVars, sinkVars, refVars, main_pc, auth>>

\* a non-empty read of the second request: the chunk goes out
OtherRead ==
    /\ other.pc = "stream"
    /\ other.remaining > 0
    /\ \E n \in ReadLens(other.fpos,
                          ToRead(other.chunk_size, other.remaining)) :
          /\ n > 0
          /\ other' = [other EXCEPT
                         !.body = @ \o FileBytes(other.fpos, n),
                         !.fpos = @ + n,
                         !.bytes_sent = @ + n,
                         !.remaining = @ - n,
                         !.eof_retries = 0]
    /\ UNCHANGED <<getVars, monVars, sinkVars, refVars, main_pc, auth>>

\* an empty read of the second request: the threaded loop breaks; the
\* FastAPI loop breaks on an end seek or an exhausted budget, else waits
OtherEmptyRead ==
    /\ other.pc = "stream"
    /\ other.remaining > 0
    /\ 0 \in ReadLens(other.fpos, ToRead(other.chunk_size, other.remaining))
    /\ other' =
          IF \/ server = "threaded"
             \/ other.is_end_seek /\ other.eof_retries = 0
             \/ other.eof_retries >= other.max_eof_retries
          THEN [other EXCEPT !.pc = "done"]
          ELSE [other EXCEPT !.eof_retries = @ + 1]
    /\ UNCHANGED <<getVars, monVars, sinkVars, refVars, main_pc, auth>>

\* the loop condition of the second request fails
OtherFinish ==
    /\ other.pc = "stream"
    /\ other.remaining <= 0
    /\ other' = [other EXCEPT !.pc = "done"]
    /\ UNCHANGED <<getVars, monVars, sinkVars, refVars, main_pc, auth>>

\* a step of the second request
OtherStep == OtherGet \/ OtherRead \/ OtherEmptyRead \/ OtherFinish

\* a step of the first request (its path is not served through rar2fs, so
\* no seek of it is an end seek)
FirstStep ==
    \/ FastapiGet \/ ThreadedGet
    \/ FastapiYield \/ FastapiGiveUp \/ FastapiRetry
    \/ FastapiFinish
    \/ ThreadedWrite \/ ThreadedEof \/ ThreadedFinish

InitTwo ==
    /\ InitRequest(OtherHeaders, {MaxSize}, {"/data/v.mkv"})
    /\ reference = <<>>
    /\ archive_ok = TRUE
    /\ listing = {}
    /\ ref_status = 0
    /\ archive_opened = FALSE
    /\ listed_files = {}
    /\ main_pc = "none"
    /\ other = OtherRequest
    /\ auth = NoAuth

NextTwo == FirstStep \/ OtherStep \/ Materialise

SpecTwo == InitTwo /\ [][NextTwo]_vars

(***************************************************************************)
(* Authentication: check_auth and the do_GET, do_HEAD and do_DELETE of     *)
(* media-file-server/usenet_file_server.py, verify_api_key and the routes  *)
(* of fastapi_file_server.py.  Strings are sequences of the tokens "key",  *)
(* "=", "Bearer ", "k" and "x"; the request names an existing file.        *)
(***************************************************************************)
\* the key the server was started with: none, or "k"
ApiKeys == {<<>>, <<"k">>}

\* the X-API-Key header of a request
XApiKeys == {NoHeader, HeaderOf(<<"k">>), HeaderOf(<<"x">>)}

\* the Authorization header of a request
Authorizations ==
    {NoHeader, HeaderOf(<<"Bearer ", "k">>), HeaderOf(<<"Bearer ", "x">>),
     HeaderOf(<<"k">>)}

\* what follows the '?' of the request path, if there is one
Queries ==
    {NoHeader, HeaderOf(<<"key", "=", "k">>), HeaderOf(<<"key", "=", "x">>),
     HeaderOf(<<"key", "=", "k", "x">>), HeaderOf(<<"x", "key", "=", "k">>)}

\* `sub in text`
IsSubstring(sub, text) ==
    \E i \in 1..(Len(text) - Len(sub) + 1) :
        SubSeq(text, i, i + Len(sub) - 1) = sub

\* RangeRequestHandler.check_auth
CheckAuth(api_key, x_api_key, authorization, query) ==
    IF api_key = <<>> THEN TRUE
    ELSE \/ x_api_key.present /\ x_api_key.text = api_key
         \/ query.present /\ IsSubstring(<<"key", "=">> \o api_key, query.text)
         \/ /\ authorization.present
            /\ Len(authorization.text) > 0
            /\ authorization.text[1] = "Bearer "
            /\ Tail(authorization.text) = api_key

\* dict(request.query_params).get("key"): the value of the parameter whose
\* name is exactly `key` (the queries of the model hold one parameter)
QueryKey(query) ==
    IF query.present /\ Len(query.text) >= 2
       /\ query.text[1] = "key" /\ query.text[2] = "="
    THEN HeaderOf(SubSeq(query.text, 3, Len(query.text)))
    ELSE NoHeader

\* verify_api_key: TRUE, or HTTPException(401)
VerifyApiKey(api_key, x_api_key, authorization, query) ==
    IF api_key = <<>> THEN TRUE
    ELSE \/ x_api_key.present /\ x_api_key.text = api_key
         \/ /\ authorization.present
            /\ Len(authorization.text) > 0
            /\ authorization.text[1] = "Bearer "
            /\ Tail(authorization.text) = api_key
         \/ QueryKey(query).present /\ QueryKey(query).text = api_key

\* the response to the request and what it did to the file
Answer(st, str, size, del) ==
    auth' = [auth EXCEPT !.pc = "done", !.status = st, !.streamed = str,
                         !.size_disclosed = size, !.deleted = del]

\* do_GET of the threaded server: 401 unless check_auth, else the file
AuthThreadedGet ==
    /\ auth.pc = "request" /\ auth.server = "threaded"
    /\ auth.method = "GET"
    /\ IF CheckAuth(auth.api_key, auth.x_api_key, auth.authorization,
                    auth.query)
       THEN Answer(200, TRUE, TRUE, FALSE)
       ELSE Answer(401, FALSE, FALSE, FALSE)
    /\ UNCHANGED <<getVars, monVars, sinkVars, refVars, main_pc, other>>

\* do_HEAD of the threaded server: Content-Length is the file's size
AuthThreadedHead ==
    /\ auth.pc = "request" /\ auth.server = "threaded"
    /\ auth.method = "HEAD"
    /\ Answer(200, FALSE, TRUE, FALSE)
    /\ UNCHANGED <<getVars, monVars, sinkVars, refVars, main_pc, other>>

\* do_DELETE of the threaded server: os.remove(path)
AuthThreadedDelete ==
    /\ auth.pc = "request" /\ auth.server = "threaded"
    /\ auth.method = "DELETE"
    /\ Answer(200, FALSE, FALSE, TRUE)
    /\ UNCHANGED <<getVars, monVars, sinkVars, refVars, main_pc, other>>

\* stream_file and delete_file of the FastAPI server, both behind
\* Depends(verify_api_key)
AuthFastapi ==
    /\ auth.pc = "request" /\ auth.server = "fastapi"
    /\ IF ~VerifyApiKey(auth.api_key, auth.x_api_key, auth.authorization,
                        auth.query)
       THEN Answer(401, FALSE, FALSE, FALSE)
       ELSE IF auth.method = "GET"
       THEN Answer(200, TRUE, TRUE, FALSE)
       ELSE Answer(200, FALSE, FALSE, TRUE)
    /\ UNCHANGED <<getVars, monVars, sinkVars, refVars, main_pc, other>>

\* the methods the servers have handlers for
Methods(srv) ==
    IF srv = "threaded" THEN {"GET", "HEAD", "DELETE"} ELSE {"GET", "DELETE"}

InitAuth ==
    /\ InitRequest({NoHeader}, {MaxSize}, {"/data/v.mkv"})
    /\ ~growing /\ avail = file_size
    /\ reference = <<>>
    /\ archive_ok = TRUE
    /\ listing = {}
    /\ ref_status = 0
    /\ archive_opened = FALSE
    /\ listed_files = {}
    /\ main_pc = "none"
    /\ other = NoOther
    /\ \E srv \in {"threaded", "fastapi"} :
          auth \in [pc : {"request"}, server : {srv}, method : Methods(srv),
                    api_key : ApiKeys, x_api_key : XApiKeys,
                    authorization : Authorizations, query : Queries,
                    status : {0}, streamed : {FALSE},
                    size_disclosed : {FALSE}, deleted : {FALSE}]

NextAuth ==
    AuthThreadedGet \/ AuthThreadedHead \/ AuthThreadedDelete \/ AuthFastapi

SpecAuth == InitAuth /\ [][NextAuth]_vars

(***************************************************************************)
(* The server process of media-file-server/usenet_file_server.py: main     *)
(* checks the directory, sets up the error-video cache and calls           *)
(* run_server, which builds the ThreadingHTTPServer and serves forever.    *)
(* Neither calls extract_7z_archives, so no monitor thread is started.     *)
(***************************************************************************)
Main ==
    /\ main_pc = "start"
    /\ main_pc' = "serving"
    /\ UNCHANGED <<getVars, monVars, sinkVars, refVars, other, auth>>

\* a request thread of the ThreadingHTTPServer handles the GET
ServerHandles ==
    /\ main_pc = "serving"
    /\ ThreadedGet \/ ThreadedWrite \/ ThreadedEof \/ ThreadedFinish

\* time passes while the server runs
TimePasses ==
    /\ main_pc = "serving"
    /\ mpc = "off"
    /\ now + SLEEP_SECONDS <= MaxNow
    /\ now' = now + SLEEP_SECONDS
    /\ UNCHANGED <<dirVars, mpc, todo, archive_path, extracted_archives,
                   archive_stable_times, histVars, getVars, sinkVars, extVars>>

InitServer ==
    /\ InitRequest({NoHeader}, {MaxSize}, {"/data/v.mkv"})
    /\ reference = <<>>
    /\ archive_ok = TRUE
    /\ listing = {}
    /\ ref_status = 0
    /\ archive_opened = FALSE
    /\ listed_files = {}
    /\ main_pc = "start"
    /\ other = NoOther
    /\ auth = NoAuth

NextServer ==
    \/ Main \/ ServerHandles \/ TimePasses
    \/ FileGrows \/ FileRemoved

SpecServer == InitServer /\ [][NextServer]_vars

\* range resolution over every header text of up to MaxHdrLen tokens
RangeHeaders ==
    Headers \cup {RangeHeaderFor(s, e) : s \in 0..MaxSize, e \in 0..MaxSize}

InitRange ==
    /\ InitRequest(RangeHeaders, 0..MaxSize, {"/data/v.mkv"})
    /\ NoReference
    /\ ~growing
    /\ avail = file_size

NextRange ==
    \/ FastapiGet \/ ThreadedGet \/ SimpleGet \/ ArchiveGet
    \/ ReRequest

SpecRange == InitRange /\ [][NextRange]_vars

\* the FastAPI streamer over a source that has stopped producing bytes; the
\* event loop resumes the generator after every read and every sleep
InitStalled == Init /\ ~growing

NextFastapi ==
    \/ FastapiGet
    \/ FastapiYield \/ FastapiEndSeekBreak \/ FastapiGiveUp \/ FastapiRetry
    \/ FastapiFinish

\* the next iteration of the loop of stream_file_range
FastapiStep ==
    \/ FastapiYield \/ FastapiEndSeekBreak \/ FastapiGiveUp \/ FastapiRetry
    \/ FastapiFinish

\* the FastAPI streamer over a source that produces bytes when it likes
NextFastapiGrowing == FastapiGet \/ Materialise \/ FastapiStep

\* the event loop resumes the generator after every read and every sleep;
\* the source need not produce anything
FairFastapiStep == WF_vars(FastapiStep)

SpecGrowing == InitOpenEnded /\ [][NextFastapiGrowing]_vars /\ FairFastapiStep

\* every iteration of the loop that can run does run
FairFastapi ==
    /\ WF_vars(FastapiYield) /\ WF_vars(FastapiEndSeekBreak)
    /\ WF_vars(FastapiGiveUp) /\ WF_vars(FastapiRetry)
    /\ WF_vars(FastapiFinish)

SpecStalled == InitStalled /\ [][NextFastapi]_vars /\ FairFastapi

\* the extraction monitor over a changing directory; no request is served
InitMonitorOnly ==
    /\ InitMonitor
    /\ pc = "idle"
    /\ server = "none"
    /\ range_header = NoHeader
    /\ full_path = "/data/v.mkv"
    /\ file_size = 0
    /\ member_listed = FALSE
    /\ status = 0
    /\ start = 0
    /\ end = 0
    /\ content_length = 0
    /\ content_range = <<>>
    /\ again = <<>>
    /\ growing = FALSE
    /\ avail = 0
    /\ fpos = 0
    /\ chunk_size = DEFAULT_CHUNK
    /\ is_end_seek = FALSE
    /\ max_eof_retries = 0
    /\ eof_retries = 0
    /\ bytes_sent = 0
    /\ remaining = 0
    /\ body = <<>>
    /\ connected = TRUE
    /\ closed_steps = 0
    /\ retry_resets = 0
    /\ wait_time = 0
    /\ NoReference

NextMonitor ==
    \/ ScanStart \/ ExamineContinue \/ ExamineError \/ ExtractBegin
    \/ ExtractSuccess \/ ExtractFailure \/ Sleep
    \/ ClockAdvance \/ FileGrows \/ FileRemoved

SpecMonitor == InitMonitorOnly /\ [][NextMonitor]_vars

\* the next step of the thread of monitor_loop, with a 7z tool that
\* succeeds when it is invoked
MonitorStep ==
    \/ ScanStart \/ ExamineContinue \/ ExamineError \/ ExtractBegin
    \/ ExtractSuccess \/ Sleep

NextMonitorFair == MonitorStep \/ FileGrows \/ FileRemoved

\* the thread is scheduled again and again: its next step is taken when it
\* stays possible; the changes of the directory need not happen
FairMonitor == WF_vars(MonitorStep)

SpecMonitorFair ==
    InitMonitorOnly /\ [][NextMonitorFair]_vars /\ FairMonitor

(***************************************************************************)
(* Serving next to the scheduler: the handlers of                          *)
(* media-file-server/usenet_file_server.py answer a request for a direct   *)
(* file or for an archive member while monitor_loop watches a directory    *)
(* of downloaded archives.                                                 *)
(***************************************************************************)
\* a step of a handler that serves the request
ServingStep ==
    \/ ThreadedGet \/ ThreadedWrite \/ ThreadedEof \/ ThreadedFinish
    \/ ArchiveGet

InitServing ==
    /\ InitHandler({NoHeader, HeaderOf(<<"bytes=">> \o PyStr(1) \o <<"-">>)},
                   {MaxSize}, {"/data/v.mkv"})
    /\ fs \in [FileNames -> {0, MaxFileSize}]
    /\ changes = 0
    /\ MonitorStarts
    /\ NoReference

\* the steps of monitor_loop over a directory that keeps its files
SteadyMonitorStep ==
    \/ ScanStart \/ ExamineContinue \/ ExtractBegin \/ ExtractSuccess
    \/ Sleep

NextServing == ServingStep \/ Materialise \/ SteadyMonitorStep

SpecServing == InitServing /\ [][NextServing]_vars

(***************************************************************************)
(* Properties.                                                             *)
(***************************************************************************)
DirectServers == {"fastapi", "threaded", "simple"}

\* the header carries a numeric start the handlers parse
HasNumericStart(h) == Truthy(h) /\ ReSearch(h.text).matched

NumericStart(h) == PyInt(ReSearch(h.text).group1)

HasNumericEnd(h) == HasNumericStart(h) /\ Len(ReSearch(h.text).group2) > 0

NumericEnd(h) == PyInt(ReSearch(h.text).group2)

\* range resolution took place: the request was handled and, in the
\* archive handler, the member was found in the listing
RangeResolved == pc # "request" /\ (server = "archive" => member_listed)

\* C1: in the FastAPI streamer, at every point of the stream, the chunks
\* yielded so far are the file's bytes at offsets [start, start + bytes_sent)
\* in order (no gap, overlap or duplicate), and bytes_sent never exceeds the
\* requested length end - start + 1; for a reversed range (end < start) the
\* loop is not entered and nothing is yielded.
C1_ChunksAreContiguousPrefix ==
    (server = "fastapi" /\ status = 206) =>
        /\ body = FileBytes(start, bytes_sent)
        /\ Len(body) = bytes_sent
        /\ start <= end => bytes_sent <= end - start + 1
        /\ end < start => bytes_sent = 0

\* C1 witness: two one-byte chunks from offset 1 on, then two empty reads
C1_Witness ==
    /\ server = "fastapi" /\ pc = "stream"
    /\ chunk_size = 1 /\ start = 1 /\ bytes_sent = 2 /\ eof_retries = 2

\* C2: over a source that holds every byte of the range [start, end] from
\* the beginning, the body of a finished response is exactly the
\* end - start + 1 bytes at offsets start..end, whatever the chunk size.
C2_FullSourceDeliversRange ==
    (/\ pc = "done" /\ server \in DirectServers /\ status = 206
     /\ start <= end /\ ~growing /\ avail > end) =>
        /\ body = FileBytes(start, end - start + 1)
        /\ Len(body) = end - start + 1

\* C2 witness: bytes=0-2 on a 3-byte file, read one byte at a time
C2_Witness ==
    /\ pc = "done" /\ server = "fastapi" /\ chunk_size = 1
    /\ ~growing /\ avail = file_size /\ file_size = MaxSize
    /\ start = 0 /\ end = MaxSize - 1 /\ Len(body) = MaxSize

\* the source stopped before the end of the requested range
StalledBeforeEnd ==
    server = "fastapi" /\ status = 206 /\ start <= end /\ ~growing /\ avail <= end

C3_Safety ==
    /\ server = "fastapi" => eof_retries <= max_eof_retries
    /\ (StalledBeforeEnd /\ pc = "done") =>
          /\ Len(body) < end - start + 1
          /\ body = FileBytes(start, Len(body))
          /\ \/ eof_retries = max_eof_retries
             \/ is_end_seek /\ eof_retries = 0

\* C3: when the source returns empty reads forever from an offset before the
\* range end, the FastAPI streamer stops: it never waits more often than
\* max_eof_retries in a row, it reaches the end of the stream, and what it
\* has emitted then is a strict prefix of the requested range (on an end
\* seek it stops at the first empty read, without using the budget).
C3_StalledStreamStops ==
    /\ []C3_Safety
    /\ (StalledBeforeEnd /\ pc = "stream") ~> (pc = "done")

\* C3 witness: range 1-2, the source ends at offset 2: one byte, 10 waits
C3_Witness ==
    /\ pc = "done" /\ server = "fastapi" /\ ~growing
    /\ start = 1 /\ end = 2 /\ avail = 2
    /\ Len(body) = 1 /\ eof_retries = 10 /\ max_eof_retries = 10

\* C4 (as claimed): when the FastAPI transfer ends because the retry budget
\* is exhausted, the declared Content-Length equals the number of body bytes
\* emitted.
C4_ContentLengthIsBytesSent ==
    (/\ pc = "done" /\ server = "fastapi" /\ status = 206
     /\ eof_retries > 0 /\ eof_retries = max_eof_retries) =>
        content_length = Len(body)

\* C5: a Range header whose numeric start is at or beyond the size gets 416
\* from every handler, whatever its end is; nothing is streamed and the
\* request is finished.
C5_StartBeyondSizeIs416 ==
    (/\ RangeResolved
     /\ HasNumericStart(range_header)
     /\ NumericStart(range_header) >= file_size) =>
        /\ status = 416
        /\ pc = "done"
        /\ body = <<>>
        /\ again = <<>>

\* C5 witness: the archive handler answers 416 to a header with an end
\* below the size
C5_Witness ==
    /\ server = "archive" /\ member_listed /\ status = 416 /\ file_size > 1
    /\ HasNumericEnd(range_header)
    /\ NumericEnd(range_header) < file_size

\* C6: a header with start below the size and end at or beyond it resolves
\* to (start, size - 1), without an error.
C6_EndBeyondSizeIsClamped ==
    (/\ RangeResolved
     /\ HasNumericEnd(range_header)
     /\ NumericStart(range_header) < file_size
     /\ NumericEnd(range_header) >= file_size) =>
        /\ status = 206
        /\ start = NumericStart(range_header)
        /\ end = file_size - 1

\* C6 witness: bytes=1-9 on a 3-byte file in the simple server
C6_Witness ==
    /\ server = "simple" /\ file_size = 3
    /\ range_header = HeaderOf(<<"bytes=", "1", "-", "9">>)
    /\ start = 1 /\ end = 2

\* C7: for 0 <= start <= end < total the header bytes=start-end resolves to
\* exactly (start, end), and asking again for the resolved range gives the
\* same pair.
C7_ValidRangeIsFixedPoint ==
    \A s \in 0..MaxSize, e \in 0..MaxSize :
        (/\ s <= e /\ e < file_size
         /\ range_header = RangeHeaderFor(s, e)
         /\ RangeResolved) =>
            /\ status = 206
            /\ start = s
            /\ end = e
            /\ pc = "reresolved" => again = <<206, s, e>>

\* C7 witness: bytes=1-2 of 3 bytes asked twice of the FastAPI server
C7_Witness ==
    /\ pc = "reresolved" /\ server = "fastapi" /\ file_size = 3
    /\ range_header = RangeHeaderFor(1, 2)
    /\ start = 1 /\ end = 2

\* C8 (as claimed): every range that is resolved without 416 satisfies
\* 0 <= start <= end < total, so its content length is at least 1.
C8_ResolvedRangeIsValid ==
    (RangeResolved /\ status = 206) =>
        /\ 0 <= start
        /\ start <= end
        /\ end < file_size
        /\ content_length >= 1

\* C9: a direct-file GET whose Range header is absent or has no numeric
\* start resolves to [0, total - 1], and every direct-file GET that is not
\* answered 416 is answered 206 with Content-Range start-end/total.
C9_AlwaysPartialContent ==
    (pc # "request" /\ server \in DirectServers) =>
        /\ status = 416 \/ (status = 206 /\ content_range = <<start, end, file_size>>)
        /\ (~HasNumericStart(range_header) /\ file_size > 0) =>
              /\ status = 206
              /\ start = 0
              /\ end = file_size - 1

\* C9 witness: the threaded server answers a request without Range header
C9_Witness ==
    /\ server = "threaded" /\ range_header = NoHeader /\ file_size = 2
    /\ status = 206 /\ content_range = <<0, 1, 2>>

\* the one stand-alone archive of the directory
SingleArchive == <<"a", ".", "7", "z">>

\* C10: extraction is triggered once per archive.  After an extraction of
\* an archive has returned success the 7z tool is never started on that
\* archive again (no archive is ever re-run, and the archive being extracted
\* is never one recorded as extracted), and at no time are two extractions
\* of the same archive running.
C10_ExtractedOnce ==
    /\ rerun = {}
    /\ \A a \in FileNames : inflight[a] <= 1
    /\ mpc = "extract" => archive_path \notin extracted_archives
    /\ succeeded \subseteq extracted_archives

\* a later scan lists the stand-alone archive, still on disk, after its
\* extraction has succeeded
C10_Witness ==
    /\ SingleArchive \in succeeded
    /\ mpc = "scan"
    /\ SingleArchive \in todo
    /\ fs[SingleArchive] > 0

\* a step of the scan that examines the stand-alone archive
ExaminesSingle ==
    /\ mpc = "scan"
    /\ SingleArchive \in todo
    /\ todo' = todo \ {SingleArchive}

\* a step that starts the extraction of the stand-alone archive
StartsSingle ==
    /\ mpc = "scan"
    /\ mpc' = "extract"
    /\ archive_path' = SingleArchive

\* C11: a non-split archive is handed to extraction in a scan only if it
\* has a recorded entry, the size seen in this scan equals the recorded
\* size and at least 30 seconds have passed since the entry's time; and an
\* archive not yet extracted that meets the three conditions when it is
\* examined is handed to extraction (recorded at t=0 with the same size at
\* t=10 and t=20, it is passed over at t=20 and extracted at t=30).
C11_SingleStableAfter30 ==
    [][ /\ StartsSingle =>
            /\ archive_stable_times[SingleArchive] # NoEntry
            /\ fs[SingleArchive] = archive_stable_times[SingleArchive][1]
            /\ now - archive_stable_times[SingleArchive][2] >= STABLE_SECONDS
        /\ ( /\ ExaminesSingle
             /\ SingleArchive \notin extracted_archives
             /\ archive_stable_times[SingleArchive] # NoEntry
             /\ fs[SingleArchive] > 0
             /\ fs[SingleArchive] = archive_stable_times[SingleArchive][1]
             /\ now - archive_stable_times[SingleArchive][2] >= STABLE_SECONDS )
           => StartsSingle
      ]_vars

\* C11 witness: the archive recorded at t=0 is being extracted at t=30
C11_Witness ==
    /\ mpc = "extract"
    /\ archive_path = SingleArchive
    /\ archive_stable_times[SingleArchive] = <<1, 0>>
    /\ fs[SingleArchive] = 1
    /\ now = 30

\* the stand-alone archive was recorded with size 1 at t=0 and its entry
\* was replaced by <<2, 10>> when the scan at t=10 saw size 2
GrewAt10 ==
    /\ SingleArchive \in clock_resets
    /\ archive_stable_times[SingleArchive] = <<2, 10>>

\* C12 (as claimed): with sizes 1, 2, 2 seen at t=0, 10, 40 the clock is
\* reset at t=10 and the archive is not stable at t=40; it is not handed to
\* extraction before t=70.
C12_NotStableBefore70 ==
    (GrewAt10 /\ mpc = "extract" /\ archive_path = SingleArchive) => now >= 70

\* C12 (amended): with sizes 1, 2, 2 seen at t=0, 10, 40 the scan at t=10
\* replaces the entry <<1, 0>> by <<2, 10>> without extracting, the archive
\* is not handed to extraction before t=40, and a scan that examines it at
\* t=40 or later with size 2 hands it to extraction: it is stable 30
\* seconds after the reset.
C12_ResetThenStableAt40 ==
    [][ /\ ( /\ ExaminesSingle
             /\ SingleArchive \notin extracted_archives
             /\ archive_stable_times[SingleArchive] = <<1, 0>>
             /\ fs[SingleArchive] = 2
             /\ now = 10 )
           => /\ archive_stable_times'[SingleArchive] = <<2, 10>>
              /\ SingleArchive \in clock_resets'
              /\ ~StartsSingle
        /\ (StartsSingle /\ GrewAt10) => now >= 40
        /\ ( /\ ExaminesSingle
             /\ SingleArchive \notin extracted_archives
             /\ GrewAt10
             /\ fs[SingleArchive] = 2
             /\ now >= 40 )
           => StartsSingle
      ]_vars

\* C12 witness: the archive that grew at t=10 is being extracted at t=40
C12_Witness ==
    /\ GrewAt10
    /\ mpc = "extract"
    /\ archive_path = SingleArchive
    /\ fs[SingleArchive] = 2
    /\ now = 40

\* the parts name.7z.001, name.7z.002, ... of the split archive of `first`
\* that exist, up to the first missing number
ExistingParts(first) ==
    {p \in FileNames :
        \E n \in 1..Cardinality(FileNames) :
            /\ p = PartFile(SplitName(first), n)
            /\ \A k \in 1..n : Exists(PartFile(SplitName(first), k))}

\* the path has an entry of its present size that is at least 30 s old
IsStable(path) ==
    /\ archive_stable_times[path] # NoEntry
    /\ fs[path] = archive_stable_times[path][1]
    /\ now - archive_stable_times[path][2] >= STABLE_SECONDS

\* C13 (as claimed): the extraction of a split archive is started in a scan
\* only if every existing part name.7z.001, name.7z.002, ... up to the first
\* missing number has, in that scan, a recorded entry of unchanged size
\* that is at least 30 seconds old.
C13_SplitStartsOnlyWhenPartsStable ==
    [][ (mpc = "scan" /\ mpc' = "extract" /\ IsFirstPart(archive_path'))
            => \A p \in ExistingParts(archive_path') : IsStable(p)
      ]_vars

\* a step in which the running extraction ends without success: exit code
\* 2, another non-zero exit code, a timeout or an exception
AttemptFails ==
    /\ mpc = "extract"
    /\ mpc' = "scan"
    /\ archive_path \notin succeeded'

\* a step of the scan that examines the archive a
Examines(a) ==
    /\ mpc = "scan"
    /\ a \in todo
    /\ todo' = todo \ {a}

Archives == {f \in FileNames : IsSevenZip(f) /\ (IsSplitName(Lower(f)) => IsFirstPart(f))}

\* seconds that suffice to reach the next scan, to record every file in
\* it or in the scan after it (the entry of a first part is dropped when
\* that part is extracted) and to see the files unchanged for 30 seconds
SettleSeconds == STABLE_SECONDS + 2 * SLEEP_SECONDS

\* the archive a exists and no file of the directory changes any more,
\* early enough for the scans that follow
KeepsItsSize(a) ==
    /\ fs[a] > 0
    /\ changes = MaxChanges
    /\ now + SettleSeconds <= MaxNow

FastapiStreaming == server = "fastapi" /\ pc \in {"stream", "done"} /\ status = 206

\* cursor / total_size > 0.9, with cursor = start + bytes already sent
CursorPast90 == file_size > 0 /\ 10 * (start + bytes_sent) > 9 * file_size

\* start / total_size > 0.9
StartPast90 == file_size > 0 /\ 10 * start > 9 * file_size

ShortResponse ==
    /\ server \in DirectServers
    /\ pc = "done" /\ status = 206
    /\ remaining > 0

C18_StopsWithinOneIteration == ~connected => closed_steps <= 1

\* C19: the chunk sequence of the FastAPI streamer is finite whatever the
\* source does, a source that alternates empty and non-empty reads
\* included: every non-empty read strictly decreases remaining, never more
\* than max_eof_retries consecutive empty reads are waited on, and a
\* streaming loop always comes to its end.
C19_ChunkSequenceIsFinite ==
    /\ [][(FastapiStreaming /\ body' # body) => remaining' < remaining]_vars
    /\ [](FastapiStreaming => eof_retries <= max_eof_retries)
    /\ (FastapiStreaming ~> pc = "done")

\* C19 witness: a 3-byte range went out in three chunks and the retry
\* counter was reset from a positive value before two of them
C19_Witness ==
    /\ server = "fastapi" /\ pc = "done" /\ status = 206
    /\ growing
    /\ content_length = 3 /\ bytes_sent = 3 /\ remaining = 0
    /\ retry_resets >= 2

\* C20: for a listed archive member of content D and 0 <= a <= b < |D|, the
\* archive request bytes=a-b is answered with exactly D[a..b], b-a+1 bytes
\* with Content-Length b-a+1, and these are the bytes found at the same
\* offsets in the answer to any request bytes=a2-b2 with a2 <= a, b <= b2.
C20_ArchiveRangeIsSliceOfMember ==
    \A a \in 0..MaxSize, b \in 0..MaxSize :
        (/\ a <= b /\ b < file_size
         /\ range_header = RangeHeaderFor(a, b)
         /\ server = "archive" /\ RangeResolved) =>
            /\ status = 206
            /\ body = FileBytes(a, b - a + 1)
            /\ Len(body) = b - a + 1
            /\ content_length = b - a + 1
            /\ \A a2 \in 0..a, b2 \in b..(file_size - 1) :
                  SubSeq(ArchiveData(RangeHeaderFor(a2, b2), file_size),
                         a - a2 + 1, b - a2 + 1) = body

\* C20 witness: bytes=1-2 of a 3-byte member, answered with its second and
\* third byte
C20_Witness ==
    /\ server = "archive" /\ member_listed /\ pc = "done"
    /\ file_size = 3
    /\ range_header = RangeHeaderFor(1, 2)
    /\ status = 206 /\ content_length = 2
    /\ body = <<FileByte(1), FileByte(2)>>

\* the reference splits into exactly two non-empty parts at its one '|'
WellFormed(p) ==
    /\ Cardinality({i \in 1..Len(p) : p[i] = "|"}) = 1
    /\ p[1] # "|"
    /\ p[Len(p)] # "|"

\* the resolution of the reference has run
Resolved21 == pc = "done" /\ server = "archive" /\ ref_status # 0

\* C21: a reference that does not split into exactly two non-empty parts
\* (no separator, an empty archive part, an empty member part, more than
\* one separator) is rejected, and no archive has been opened for it.
C21_MalformedReferenceRejectedUnopened ==
    (Resolved21 /\ ~WellFormed(reference)) =>
        /\ ref_status \in {400, 404}
        /\ ~archive_opened

\* C22: when listing the archive a.zip fails, list_archive_contents gives
\* the empty listing, the file listing is answered (200) without any member
\* of a.zip and with the members of the other archive, and a member request
\* against a.zip ends at once with an error response, with no retry.
C22_ListingFailureIsAValue ==
    ~archive_ok =>
        /\ ListArchiveContents(<<"a.zip">>) = {}
        /\ (pc = "done" /\ server = "list") =>
              /\ status = 200
              /\ listed_files = {<<"b.zip", "|", "w.mkv">>}
        /\ (Resolved21
            /\ FirstPipe(reference) # 0
            /\ SplitPipe(reference).archive_rel_path = <<"a.zip">>) =>
              /\ ref_status = 404 /\ status = 404
              /\ eof_retries = 0 /\ body = <<>>

\* C22 witness: a.zip holds v.mkv but cannot be listed; the file listing
\* names only the member of b.zip
C22_Witness ==
    /\ ~archive_ok /\ <<"v.mkv">> \in listing
    /\ pc = "done" /\ server = "list" /\ status = 200
    /\ listed_files = {<<"b.zip", "|", "w.mkv">>}

\* the file a was deleted after its extraction succeeded and a file is at
\* its path again
Reappeared(a) == a \in replaced /\ fs[a] > 0

\* a step in which the running extraction ends with success
AttemptSucceeds ==
    /\ mpc = "extract"
    /\ mpc' = "scan"
    /\ archive_path \in succeeded'

\* C23 (as claimed): the stability entry of an archive is removed when its
\* extraction succeeds, and a file that re-appears at the path of an
\* extracted archive is tracked again from Unseen: the scan that examines
\* it records a first observation of it.
C23_ReappearedIsTrackedAgain ==
    [][ /\ AttemptSucceeds => archive_stable_times'[archive_path] = NoEntry
        /\ \A a \in FileNames :
              (Reappeared(a) /\ Examines(a) /\ archive_stable_times[a] = NoEntry)
                  => archive_stable_times'[a] = <<fs[a], now>>
      ]_vars

\* C23 (amended): the stability entry of an archive is removed when its
\* extraction succeeds, and its path stays in extracted_archives: a file
\* that re-appears at that path is passed over by every scan that examines
\* it, which records nothing and starts no extraction.
C23_ReappearedIsPassedOver ==
    [][ /\ AttemptSucceeds =>
              /\ archive_stable_times'[archive_path] = NoEntry
              /\ archive_path \in extracted_archives'
        /\ \A a \in FileNames :
              (Reappeared(a) /\ Examines(a)) =>
                  /\ a \in extracted_archives
                  /\ archive_stable_times' = archive_stable_times
                  /\ mpc' = "scan"
                  /\ inflight' = inflight
      ]_vars

\* C23 witness: the stand-alone archive was extracted, deleted and written
\* again, and the scan at t=40 is about to examine it
C23_Witness ==
    /\ Reappeared(SingleArchive)
    /\ SingleArchive \in extracted_archives
    /\ mpc = "scan" /\ SingleArchive \in todo
    /\ archive_stable_times[SingleArchive] = NoEntry
    /\ now = 40

\* C24: the tracking map holds no stability entry for an archive that has
\* been extracted with success: none for the archive's path and, for a
\* split archive, none for any of its parts.
C24_NoEntryForExtractedArchive ==
    \A a \in extracted_archives :
        \A p \in FilesOf(a) : archive_stable_times[p] = NoEntry

\* the paths whose size the examination of `file` reads: the file itself
\* for a single archive, the parts the part loop finds for a first part
ObservedBy(file) ==
    IF file \in extracted_archives THEN {}
    ELSE IF IsSplitName(Lower(file))
    THEN IF IsFirstPart(file)
         THEN {p \in FileNames :
                 \E n \in 1..Cardinality(FileNames) :
                     /\ p = PartFile(BaseName(file), n)
                     /\ \A k \in 1..n : Exists(PartFile(BaseName(file), k))}
         ELSE {}
    ELSE IF Exists(file) THEN {file} ELSE {}

\* C25: in every step, for every path: the last_seen_at of its entry does
\* not decrease; an entry is written only as (size observed, now), and only
\* on a first observation or when the observed size differs from
\* last_size; and after a step of the scan that observed the path, the
\* last_size of its entry is the size observed.
C25_EntryFollowsObservations ==
    [][ \A p \in FileNames :
          LET e == archive_stable_times[p]
              n == archive_stable_times'[p]
          IN  /\ (e # NoEntry /\ n # NoEntry) => n[2] >= e[2]
              /\ (n # e /\ n # NoEntry) =>
                    /\ n = <<fs[p], now>>
                    /\ e = NoEntry \/ e[1] # fs[p]
              /\ \A file \in FileNames :
                    (Examines(file) /\ p \in ObservedBy(file)) =>
                        (n # NoEntry /\ n[1] = fs[p])
      ]_vars

\* C25 witness: the stand-alone archive was recorded with 1 byte at t=0,
\* grew, was recorded with 2 bytes at t=10 and was observed unchanged at
\* t=20 and t=30
C25_Witness ==
    /\ SingleArchive \in clock_resets
    /\ archive_stable_times[SingleArchive] = <<2, 10>>
    /\ fs[SingleArchive] = 2
    /\ mpc = "sleep"
    /\ now = 40

\* C26: in the running server the extraction scheduler runs as a
\* background task, so an archive of the served directory that has kept
\* its size for STABLE_SECONDS and the two scans around them is extracted
\* without any request.
C26_SchedulerRunsInServer ==
    main_pc = "serving" =>
        /\ mpc \in {"scan", "extract", "sleep"}
        /\ \A a \in Archives :
              (/\ fs[a] > 0
               /\ changes = 1
               /\ now >= SettleSeconds) => a \in extracted_archives

\* the cursor, the retry counter and the emitted bytes of the first request
FirstProgress == <<pc, fpos, remaining, bytes_sent, eof_retries, body>>

\* C27: of two requests served concurrently on the same file, under every
\* interleaving of their reads, waits and writes, each has emitted exactly
\* the bytes of its own range from its own start, and no step of one request
\* changes the cursor, the retry counter or the emitted bytes of the other.
C27_RequestsAreIsolated ==
    /\ [](/\ pc \in {"stream", "done"} /\ status # 416
             => body = FileBytes(start, bytes_sent)
          /\ other.pc \in {"stream", "done"} /\ other.status # 416
             => /\ other.body = FileBytes(other.start, other.bytes_sent)
                /\ other.fpos = other.start + other.bytes_sent)
    /\ [][/\ other' # other => FirstProgress' = FirstProgress
          /\ FirstProgress' # FirstProgress => other' = other]_vars

\* the first request waits for data after having sent some while the second,
\* asked from another offset of the same file, has sent bytes and ended
C27_Witness ==
    /\ pc = "stream"
    /\ bytes_sent > 0
    /\ eof_retries > 0
    /\ other.pc = "done"
    /\ other.status = 206
    /\ other.bytes_sent > 0
    /\ other.start # start

\* what a request has been answered so far
Served == <<pc, server, status, body, bytes_sent, fpos, eof_retries>>

\* the source file, the files of the directory and what the scheduler tracks
DiskAndTracking ==
    <<file_size, avail, growing, fs, extracted_archives,
      archive_stable_times, todo, archive_path, mpc, now>>

\* C28: a step that serves a request, for a direct file or for an archive
\* member, only reads: it leaves the source file, the files of the
\* directory and the scheduler's tracking state as they were; an archive
\* member's range goes out without anything being written to disk.
C28_ServingOnlyReads ==
    [][Served' # Served => DiskAndTracking' = DiskAndTracking]_vars

\* a range of an archive member has been served in a process whose
\* scheduler holds a tracking entry and has extracted an archive
C28_Witness ==
    /\ server = "archive"
    /\ pc = "done"
    /\ status = 206
    /\ body # <<>>
    /\ extracted_archives # {}
    /\ \E f \in FileNames : archive_stable_times[f] # NoEntry

\* a stream of stream_file_range that is not an end seek is in its loop
NormalStream ==
    server = "fastapi" /\ pc = "stream" /\ ~is_end_seek /\ remaining > 0

\* an iteration whose read is empty: the loop moves without sending
EmptyReadIteration ==
    /\ NormalStream
    /\ bytes_sent' = bytes_sent
    /\ pc' \in {"stream", "done"}
    /\ pc' # pc \/ eof_retries' # eof_retries

\* C29: in a stream that is not an end seek the retry counter counts the
\* empty reads since the last non-empty one: an iteration that sends bytes
\* sets it to 0, an empty read below the budget adds one wait, and the
\* stream gives up on an empty read exactly when the counter has reached
\* the budget, 30 for a path served from rar2fs or containing '.rar' and 10
\* for any other path.
C29_BudgetBoundsConsecutiveEmptyReads ==
    /\ [](NormalStream =>
            /\ max_eof_retries = (IF IsRar2fs(full_path) THEN 30 ELSE 10)
            /\ eof_retries <= max_eof_retries)
    /\ [][/\ NormalStream /\ bytes_sent' > bytes_sent => eof_retries' = 0
          /\ EmptyReadIteration =>
               /\ pc' = "done" <=> eof_retries = max_eof_retries
               /\ pc' = "stream" => eof_retries' = eof_retries + 1
               /\ pc' = "done" => eof_retries' = eof_retries]_vars

\* a stream from rar2fs that is not an end seek has sent bytes after having
\* waited, and then gave up after 30 waits in a row
C29_Witness ==
    /\ server = "fastapi"
    /\ pc = "done"
    /\ IsRar2fs(full_path)
    /\ ~is_end_seek
    /\ retry_resets > 0
    /\ bytes_sent > 0
    /\ remaining > 0
    /\ eof_retries = 30

\* a retry is counted: the loop goes to sleep for wait_time'
RetryIsCounted == eof_retries' = eof_retries + 1

\* C30: the wait before the k-th retry in a row is
\* min(1.0, 0.1 * 1.5^min(k, 10)) seconds; from one retry to the next it
\* does not decrease and grows by the factor 1.5 until it is capped; it is
\* never more than one second and never zero; the first is of the order of
\* 100 ms (the 100 ms base times 1.5).
C30_BackoffIsCappedExponential ==
    [][RetryIsCounted =>
         LET k == eof_retries'
             m == IF k <= 10 THEN k ELSE 10
             w == wait_time'
         IN  /\ IF 3 ^ m <= 10 * (2 ^ m)
                THEN 10 * (2 ^ m) * w = (3 ^ m) * Second
                ELSE w = Second
             /\ 0 < w /\ w <= Second
             /\ k = 1 => Second <= 10 * w /\ 10 * w < 2 * Second
             /\ k > 1 => /\ w >= wait_time
                         /\ w < Second => 2 * w = 3 * wait_time
                         /\ w = Second => 3 * wait_time >= 2 * Second]_vars

\* a stream waits the full second before its seventh retry in a row
C30_Witness ==
    /\ server = "fastapi"
    /\ pc = "stream"
    /\ eof_retries = 7
    /\ wait_time = Second

\* C31: an end-seek stream (rar2fs path, start / file_size > 0.9) retries an
\* empty read up to 3 times before it gives up: it ends short of its range
\* only with its three retries used.
C31_EndSeekGivesUpAfter3Retries ==
    (/\ server = "fastapi"
     /\ is_end_seek
     /\ pc = "done"
     /\ status = 206
     /\ remaining > 0)
    => eof_retries = 3

\* C32: for every first part F (a name ending in '.7z.001') the base name
\* derived from F gives F back as its part 1, so the first part probed is F
\* itself, and F has a tracking entry whenever the extraction of its group
\* has been started.
C32_BaseNameGivesFirstPartBack ==
    /\ \A F \in FileNames :
          IsFirstPart(F) => PartFile(BaseName(F), 1) = F
    /\ (mpc = "extract" /\ IsFirstPart(archive_path))
          => archive_stable_times[archive_path] # NoEntry

\* the tracking entries and the extracted set
Recorded == <<archive_stable_times, extracted_archives>>

\* C33: an exception raised while an archive is examined (its file was
\* removed between the directory listing and the size probe) does not stop
\* the monitor loop: the exception leaves the tracking entries and the
\* extracted set as they were, the loop then sleeps, and it performs
\* another scan.
C33_LoopSurvivesAnError ==
    /\ [][/\ (scan_error' /\ ~scan_error) =>
                (mpc' = "scan" /\ todo' = {})
          /\ (scan_error' \/ scan_error) => Recorded' = Recorded
          /\ (scan_error /\ mpc = "scan" /\ mpc' # mpc) =>
                (mpc' = "sleep" /\ scan_error')]_vars
    /\ [](scan_error => mpc \in {"scan", "sleep"})
    /\ (scan_error /\ (mpc = "sleep" \/ now + SLEEP_SECONDS <= MaxNow))
           ~> (~scan_error /\ mpc = "scan")

\* after an exception the loop sleeps, with an archive in the extracted set
\* and a tracking entry still recorded
C33_Witness ==
    /\ scan_error
    /\ mpc = "sleep"
    /\ extracted_archives # {}
    /\ \E f \in FileNames : archive_stable_times[f] # NoEntry

\* the request carries the configured key: as its X-API-Key header, as its
\* Bearer token, or as the value of its `key` query parameter
PresentsValidKey ==
    \/ auth.x_api_key = HeaderOf(auth.api_key)
    \/ auth.authorization = HeaderOf(<<"Bearer ">> \o auth.api_key)
    \/ auth.query = HeaderOf(<<"key", "=">> \o auth.api_key)

\* C34: when an API key is configured, a request without a valid key never
\* gets a file's bytes streamed, a file's size disclosed or a file deleted,
\* whichever of GET, HEAD and DELETE it uses.
C34_NoAccessWithoutValidKey ==
    (/\ auth.pc = "done"
     /\ auth.api_key # <<>>
     /\ ~PresentsValidKey)
    => (~auth.streamed /\ ~auth.size_disclosed /\ ~auth.deleted)

\* C35: in every state of the scheduler no path is both in the extracted
\* set and in the tracking map, and no step of a scan observes a path of
\* the extracted set: its size is not probed and no entry is made for it.
C35_ExtractedIsNeverTracked ==
    /\ [](\A p \in extracted_archives : archive_stable_times[p] = NoEntry)
    /\ [][\A p \in extracted_archives :
             /\ \A file \in FileNames :
                   Examines(file) => p \notin ObservedBy(file)
             /\ archive_stable_times'[p] = NoEntry]_vars

\* C36: a GET of a zero-length file is answered with 416 by each of the
\* three servers, with or without a Range header: no 206 is sent, no byte
\* of a body, and the percentage logged for a seek is computed without
\* dividing by the size.
C36_EmptyFileIs416 ==
    (file_size = 0 /\ pc # "request" /\ server \in DirectServers)
    => /\ status = 416
       /\ pc = "done"
       /\ body = <<>>
       /\ bytes_sent = 0
       /\ SeekPercent(start, file_size) = 0

\* the simple server has answered 416 to a request with a Range header for
\* an empty file
C36_Witness ==
    /\ file_size = 0
    /\ server = "simple"
    /\ range_header.present
    /\ pc = "done"
    /\ status = 416

\* the bytes of a range of content_length bytes from offset s
RangeBytes(s, len) == IF len > 0 THEN FileBytes(s, len) ELSE <<>>

\* C37: the handlers resolve ranges identically.  Whatever the Range header
\* and the size, the response of the FastAPI handler, of the threaded
\* handler (for a direct file and for an archive member) and of the simple
\* handler is the one outcome the header resolves to: 416, or the same
\* start, end and content length; and for a file that is fully available
\* the body sent is the bytes of that range.
C37_HandlersResolveAlike ==
    RangeResolved =>
        LET r == FastapiRange(range_header, file_size)
        IN  /\ r.status = 416 => status = 416
            /\ r.status # 416 =>
                  /\ status = 206
                  /\ start = r.start
                  /\ end = r.end
                  /\ content_length = r.content_length
            /\ (r.status # 416 /\ pc = "done" /\ avail = file_size) =>
                  body = RangeBytes(r.start, r.content_length)

=============================================================================
